---- MODULE Spec2Model ----
(***************************************************************************)
(* HanScribe: stroke preprocessing and the quantized BiLSTM + FC inference *)
(* engines (TypeScript reference engine and AssemblyScript/WASM engine).   *)
(*                                                                         *)
(* Number representation.  A float (f32/f64) value v is represented by the *)
(* integer v * Unit (fixed point); products and quotients are rescaled by  *)
(* Unit.  A float32 stored in the weight buffer is the little-endian       *)
(* two's-complement 32-bit pattern of that integer, so the weight buffer   *)
(* is a plain byte array that each engine decodes in its own way.          *)
(***************************************************************************)
EXTENDS Integers, Sequences, FiniteSets, TLC

VARIABLES
  model,     \* id of the weight buffer loaded into both engines
  mem,       \* the WASM engine's scratch memory (words from _featuresOff on)
  call,      \* the inference call being served: [features, T, topK]
  tsOut,     \* result of the TypeScript engine for call
  wasmOut,   \* result of the WASM engine for call
  pc,        \* inference: "idle", "ts", "wasm" (engine to run next), "done";
             \* preprocessing: "drawn", "preprocessed"
  strokeList, \* the stroke list handed to preprocessStrokes
  fit,       \* per stroke, the input indices where the curve fit exceeded the tolerance
  pre,       \* what preprocessStrokes returned: [threw, features, numSegments]
  load,      \* model loading: header, weight buffer, what each load path made of it
  pad,       \* main thread: the closure state of HanScribe.create and its canvas
  worker,    \* worker thread: engine (loaded or null) and the progress of handleInit
  toWorker,  \* messages posted to the worker, not yet handled
  toMain,    \* messages posted by the worker, not yet handled by the main thread
  now        \* the clock, in units of time

vars == << model, mem, call, tsOut, wasmOut, pc, strokeList, fit, pre,
           load, pad, worker, toWorker, toMain, now >>

inferVars == << model, mem, call, tsOut, wasmOut >>
preVars == << strokeList, fit, pre >>
padVars == << pad, worker, toWorker, toMain, now >>

\* ------------------------------------------------------------------ bounds
\* Model header (read from the .hzmodel file at load time; real: 192/12362/10)
HiddenSize == 1
NumClasses == 5
NumFeatures == 1
\* Engine capacities, scaled down (real: MAX_T = 128, MAX_TOP_K = 100)
MAX_T == 2
MAX_TOP_K == 2
\* Number of weight buffers and of feature patterns tried
NumModels == 2
NumInputs == 2

\* ------------------------------------------------------- program constants
NUM_GATES == 4
NUM_LAYERS == 4
\* 0.001 in units of 1/Unit
ScoreThreshold == 1

Unit == 10 * 100

\* ------------------------------------------------------ float arithmetic
Mul(a, b) == (a * b) \div Unit
Div(a, b) == (a * Unit) \div b

\* Math.exp / Mathf.exp
Exp(x) ==
  IF x <= 0
    THEN (Unit * Unit) \div (Unit - x + ((x * x) \div (2 * Unit)))
    ELSE Unit + x + ((x * x) \div (2 * Unit))

\* sigmoid: stable split on the sign of x
Sigmoid(x) ==
  IF x >= 0
    THEN Div(Unit, Unit + Exp(-x))
    ELSE LET ex == Exp(x) IN Div(ex, Unit + ex)

\* Math.tanh
Tanh(x) ==
  IF x >= 0
    THEN LET e == Exp(-(2 * x)) IN Div(Unit - e, Unit + e)
    ELSE LET e == Exp(2 * x) IN -Div(Unit - e, Unit + e)

\* uint8 reinterpreted as int8
Int8(b) == IF b > 127 THEN b - 256 ELSE b

\* mutant: the top byte is read unsigned
GetFloat32Unsigned(bytes, off) ==
  bytes[off + 1] + 256 * bytes[off + 2] + 65536 * bytes[off + 3]
  + 16777216 * (bytes[off + 4] % 128)

\* little-endian float32 read of bytes[off+1 .. off+4] (off is 0-based);
\* the top byte carries the sign
GetFloat32(bytes, off) ==
  bytes[off + 1] + 256 * bytes[off + 2] + 65536 * bytes[off + 3]
  + 16777216 * Int8(bytes[off + 4])

\* the 4 bytes of a float32, little-endian
Float32Bytes(v) ==
  LET low == v % 16777216
  IN << low % 256, (low \div 256) % 256, low \div 65536, ((v - low) \div 16777216) % 256 >>

\* a function on 1..n as a tuple (a typed array holds values, not thunks)
Arr(f) == f \o << >>

\* evaluation order only: v is computed before e (statements run in sequence)
After(v, e) == IF v = v THEN e ELSE e

RECURSIVE SumTo(_, _)
\* sum of f[1] .. f[n]
SumTo(f, n) == IF n = 0 THEN 0 ELSE SumTo(f, n - 1) + f[n]

RECURSIVE Flatten(_)
Flatten(ss) == IF ss = << >> THEN << >> ELSE Head(ss) \o Flatten(Tail(ss))

\* ------------------------------------------------------- weight buffers
\* Sequential .hzmodel weight layout:
\*   per layer, per direction: 4 x (scale f32 + kernel u8[H x inputSize]),
\*   4 x (scale f32 + kernel u8[H x H]), 4 x bias f32[H];
\*   then FC: scale f32, kernel u8[numClasses x 2H], bias f32[numClasses].
KernelByte(k) == << 1, 255, 2, 0, 254, 3 >>[(k % 6) + 1]
BiasValue(k) == ((k % 3) - 1) * (Unit \div 4)
FcBiasValue(m, i) == Unit * << 0, -3, -2, -1, -6, -5 >>[((i + m) % 6) + 1]

LayerInputSize(l) == IF l = 0 THEN NumFeatures ELSE HiddenSize * 2

GateBytes(seed, n) ==
  Float32Bytes(Unit \div 2) \o Arr([k \in 1..n |-> KernelByte(seed + k)])

DirectionBytes(l, d) ==
  LET inputSize == LayerInputSize(l)
      s == 3 * l + d
  IN Flatten(Arr([g \in 1..NUM_GATES |-> GateBytes(s + g, HiddenSize * inputSize)]))
     \o Flatten(Arr([g \in 1..NUM_GATES |-> GateBytes(s + 2 * g, HiddenSize * HiddenSize)]))
     \o Flatten(Arr([g \in 1..NUM_GATES |->
           Flatten(Arr([i \in 1..HiddenSize |-> Float32Bytes(BiasValue(s + g + i))]))]))

FcBytes(m) ==
  Float32Bytes(Unit)
  \o Arr([k \in 1..(NumClasses * HiddenSize * 2) |-> KernelByte(m + k)])
  \o Flatten(Arr([i \in 1..NumClasses |-> Float32Bytes(FcBiasValue(m, i - 1))]))

WeightBytes(m) ==
  Flatten(Arr([k \in 1..(2 * NUM_LAYERS) |-> DirectionBytes((k - 1) \div 2, (k - 1) % 2)]))
  \o FcBytes(m)

ModelIds == 0..(NumModels - 1)
ModelBytes == [m \in ModelIds |-> WeightBytes(m)]

\* ------------------------------------------------ TypeScript engine: parse
\* weights.slice(offset, offset + n): clipped at the end of the buffer
ReadUint8(bytes, off, n) ==
  SubSeq(bytes, off + 1, IF off + n < Len(bytes) THEN off + n ELSE Len(bytes))

ReadFloat32Array(bytes, off, n) == Arr([i \in 1..n |-> GetFloat32(bytes, off + 4 * (i - 1))])

\* readF32's new DataView(weights.buffer, offset, 4) throws a RangeError
\* unless the 4 bytes lie inside the buffer (weights owns its buffer)
ReadF32Ok(bytes, off) == off + 4 <= Len(bytes)

RECURSIVE ReadGates(_, _, _, _)
\* count times: readF32() then readUint8(n); the cursor advances by 4 + n.
\* offs are the cursor positions at which each gate was read
ReadGates(bytes, off, n, count) ==
  IF count = 0
    THEN [threw |-> FALSE, scales |-> << >>, kernels |-> << >>, offs |-> << >>, off |-> off]
  ELSE IF ~ReadF32Ok(bytes, off)
    THEN [threw |-> TRUE, scales |-> << >>, kernels |-> << >>, offs |-> << >>, off |-> off]
  ELSE LET rest == ReadGates(bytes, off + 4 + n, n, count - 1)
       IN IF rest.threw THEN rest
          ELSE [threw |-> FALSE,
                scales |-> << GetFloat32(bytes, off) >> \o rest.scales,
                kernels |-> << ReadUint8(bytes, off + 4, n) >> \o rest.kernels,
                offs |-> << off >> \o rest.offs,
                off |-> rest.off]

RECURSIVE ReadBiases(_, _, _, _)
\* count times: readFloat32Array(H), H calls of readF32
ReadBiases(bytes, off, H, count) ==
  IF count = 0
    THEN [threw |-> FALSE, biases |-> << >>, offs |-> << >>, off |-> off]
  ELSE IF H > 0 /\ ~ReadF32Ok(bytes, off + 4 * (H - 1))
    THEN [threw |-> TRUE, biases |-> << >>, offs |-> << >>, off |-> off]
  ELSE LET rest == ReadBiases(bytes, off + 4 * H, H, count - 1)
       IN IF rest.threw THEN rest
          ELSE [threw |-> FALSE,
                biases |-> << ReadFloat32Array(bytes, off, H) >> \o rest.biases,
                offs |-> << off >> \o rest.offs,
                off |-> rest.off]

\* what a read that threw leaves behind: nothing
ReadThrown == [threw |-> TRUE, dir |-> << >>, layers |-> << >>, off |-> 0]

ReadDirection(bytes, off, H, inputSize) ==
  LET inp == ReadGates(bytes, off, H * inputSize, 4)
      rec == ReadGates(bytes, inp.off, H * H, 4)
      bia == ReadBiases(bytes, rec.off, H, 4)
  IN IF inp.threw \/ rec.threw \/ bia.threw THEN ReadThrown
     ELSE [threw |-> FALSE,
           dir |-> [inputKernels |-> inp.kernels, inputScales |-> inp.scales,
                    recKernels |-> rec.kernels, recScales |-> rec.scales,
                    biases |-> bia.biases,
                    inputOffs |-> inp.offs, recOffs |-> rec.offs, biasOffs |-> bia.offs],
           layers |-> << >>,
           off |-> bia.off]

RECURSIVE ReadLayers(_, _, _, _, _, _)
ReadLayers(bytes, off, l, numLayers, H, numFeatures) ==
  IF l >= numLayers
    THEN [threw |-> FALSE, dir |-> << >>, layers |-> << >>, off |-> off]
    ELSE LET inputSize == IF l = 0 THEN numFeatures ELSE H * 2
             fw == ReadDirection(bytes, off, H, inputSize)
             bw == ReadDirection(bytes, fw.off, H, inputSize)
             rest == ReadLayers(bytes, bw.off, l + 1, numLayers, H, numFeatures)
         IN IF fw.threw \/ bw.threw \/ rest.threw THEN ReadThrown
            ELSE [threw |-> FALSE,
                  dir |-> << >>,
                  layers |-> << [forward |-> fw.dir, backward |-> bw.dir,
                                 inputSize |-> inputSize] >> \o rest.layers,
                  off |-> rest.off]

\* the header fields the engines use
Header(numLayers, H, numClasses, numFeatures) ==
  [numLayers |-> numLayers, hiddenSize |-> H,
   numClasses |-> numClasses, numFeatures |-> numFeatures]

\* parseWeights raised a RangeError: no weights object exists
ParseThrown(numLayers, H, numClasses, numFeatures) ==
  [threw |-> TRUE, layers |-> << >>,
   fc |-> [weights |-> << >>, scale |-> 0, biases |-> << >>, off |-> 0],
   header |-> Header(numLayers, H, numClasses, numFeatures), consumed |-> 0]

\* parseWeights; consumed is the cursor after the last read
parseWeights(bytes, numLayers, H, numClasses, numFeatures) ==
  LET ls == ReadLayers(bytes, 0, 0, numLayers, H, numFeatures)
      biasesOff == ls.off + 4 + numClasses * H * 2
  IN IF ls.threw \/ ~ReadF32Ok(bytes, ls.off)
        \/ (numClasses > 0 /\ ~ReadF32Ok(bytes, biasesOff + 4 * (numClasses - 1)))
       THEN ParseThrown(numLayers, H, numClasses, numFeatures)
     ELSE [threw |-> FALSE,
           layers |-> ls.layers,
           fc |-> [weights |-> ReadUint8(bytes, ls.off + 4, numClasses * H * 2),
                   scale |-> GetFloat32(bytes, ls.off),
                   biases |-> ReadFloat32Array(bytes, biasesOff, numClasses),
                   off |-> ls.off],
           header |-> Header(numLayers, H, numClasses, numFeatures),
           consumed |-> biasesOff + 4 * numClasses]

ModelWeights ==
  [m \in ModelIds |->
     parseWeights(ModelBytes[m], NUM_LAYERS, HiddenSize, NumClasses, NumFeatures)]

\* -------------------------------------------- TypeScript engine: inference
\* y[i] += scale * sum_j int8(W[i,j]) * x[j]
TsMatvecAddQuantized(y, w, scale, x, rows, cols) ==
  Arr([i \in 1..rows |->
     y[i] + Mul(scale, SumTo(Arr([j \in 1..cols |-> Int8(w[(i - 1) * cols + j]) * x[j]]), cols))])

\* mutant: the backward direction walks forward as well
TimestepOfForward(T, reverse, step) == step

\* the timestep visited at a step of the loop of runLSTMDirection (both
\* engines): const t = reverse ? T - 1 - step : step
TimestepOf(T, reverse, step) == IF reverse THEN T - 1 - step ELSE step

\* one timestep of runLSTMDirection; st = [h, c, output]
TsLstmStep(dir, input, T, inputSize, H, reverse, st, step) ==
  LET t == TimestepOf(T, reverse, step)
      xSlice == Arr([j \in 1..inputSize |-> input[t * inputSize + j]])
      g0 == Arr([g \in 1..4 |-> dir.biases[g]])
      g1 == Arr([g \in 1..4 |->
               TsMatvecAddQuantized(g0[g], dir.inputKernels[g], dir.inputScales[g],
                                    xSlice, H, inputSize)])
      g2 == Arr([g \in 1..4 |->
               TsMatvecAddQuantized(g1[g], dir.recKernels[g], dir.recScales[g],
                                    st.h, H, H)])
      c == Arr([i \in 1..H |->
              Mul(Sigmoid(g2[3][i]), st.c[i]) + Mul(Sigmoid(g2[1][i]), Tanh(g2[2][i]))])
      h == Arr([i \in 1..H |-> Mul(Sigmoid(g2[4][i]), Tanh(c[i]))])
  IN [h |-> h, c |-> c,
      output |-> Arr([k \in 1..(T * H) |->
                    IF k > t * H /\ k <= (t + 1) * H THEN h[k - t * H] ELSE st.output[k]])]

RECURSIVE TsLstmLoop(_, _, _, _, _, _, _, _)
TsLstmLoop(dir, input, T, inputSize, H, reverse, st, step) ==
  IF step >= T
    THEN st
    ELSE LET st1 == TsLstmStep(dir, input, T, inputSize, H, reverse, st, step)
         IN After(st1, TsLstmLoop(dir, input, T, inputSize, H, reverse, st1, step + 1))

\* output, h and c as allocated by runLSTMDirection: new Float32Array(...)
TsLstmStart(T, H) ==
  [h |-> Arr([i \in 1..H |-> 0]), c |-> Arr([i \in 1..H |-> 0]),
   output |-> Arr([k \in 1..(T * H) |-> 0])]

TsRunLSTMDirection(dir, input, T, inputSize, H, reverse) ==
  TsLstmLoop(dir, input, T, inputSize, H, reverse, TsLstmStart(T, H), 0).output

TsRunBiLSTMLayer(layer, input, T, H) ==
  LET fwOut == TsRunLSTMDirection(layer.forward, input, T, layer.inputSize, H, FALSE)
      bwOut == TsRunLSTMDirection(layer.backward, input, T, layer.inputSize, H, TRUE)
  IN Arr([k \in 1..(T * H * 2) |->
        LET t == (k - 1) \div (2 * H)
            r == (k - 1) % (2 * H)
        IN IF r < H THEN fwOut[t * H + r + 1] ELSE bwOut[t * H + (r - H) + 1]])

RECURSIVE TsRunLayers(_, _, _, _)
\* for (const layer of weights.layers) current = runBiLSTMLayer(layer, current, T, H)
TsRunLayers(layers, current, T, H) ==
  IF layers = << >>
    THEN current
    ELSE LET output == TsRunBiLSTMLayer(Head(layers), current, T, H)
         IN After(output, TsRunLayers(Tail(layers), output, T, H))

\* -Infinity: below every float the model computes
NegInfinity == -2147483647

RECURSIVE TsMaxLogit(_, _, _)
\* let maxLogit = -Infinity; for i: if (logits[i] > maxLogit) maxLogit = logits[i]
TsMaxLogit(logits, i, maxLogit) ==
  IF i > Len(logits) THEN maxLogit
  ELSE TsMaxLogit(logits, i + 1, IF logits[i] > maxLogit THEN logits[i] ELSE maxLogit)

\* the logits of timestep t: fc.scale * (W x) + biases
TsLogits(fc, input, inputSize, numClasses, t) ==
  Arr([i \in 1..numClasses |->
         Mul(fc.scale,
             SumTo(Arr([j \in 1..inputSize |->
                      Int8(fc.weights[(i - 1) * inputSize + j])
                        * input[t * inputSize + j]]),
                   inputSize))
         + fc.biases[i]])

\* logits -> softmax probabilities of one timestep (TypeScript engine)
TsSoftmax(logits, numClasses) ==
  LET maxLogit == TsMaxLogit(logits, 1, NegInfinity)
      e == Arr([i \in 1..numClasses |-> Exp(logits[i] - maxLogit)])
      sumExp == SumTo(e, numClasses)
  IN Arr([i \in 1..numClasses |-> Div(e[i], sumExp)])

RECURSIVE TsMaxProb(_, _, _, _, _, _)
\* running maximum per class over timesteps t .. T-1 (blank, the last class, skipped)
TsMaxProb(fc, input, T, inputSize, numClasses, acc) ==
  IF acc.t >= T
    THEN acc.maxProb
    ELSE LET logits == TsLogits(fc, input, inputSize, numClasses, acc.t)
             probs == TsSoftmax(logits, numClasses)
             maxProb == Arr([i \in 1..numClasses |->
                               IF i <= numClasses - 1 /\ probs[i] > acc.maxProb[i]
                                 THEN probs[i] ELSE acc.maxProb[i]])
         IN After(maxProb, TsMaxProb(fc, input, T, inputSize, numClasses,
                                     [t |-> acc.t + 1, maxProb |-> maxProb]))

RECURSIVE InsertDesc(_, _)
\* position of pair p in a list sorted by descending score, after its equals
InsertDesc(sorted, p) ==
  IF sorted = << >> THEN << p >>
  ELSE IF Head(sorted)[2] >= p[2] THEN << Head(sorted) >> \o InsertDesc(Tail(sorted), p)
  ELSE << p >> \o sorted

\* mutant: the results are left in class order (the sort is dropped)
Unsorted(seq) == seq

RECURSIVE SortDesc(_)
\* indexed.sort((a, b) => b[1] - a[1]): stable, descending by score
SortDesc(pairs) ==
  IF pairs = << >> THEN << >>
  ELSE InsertDesc(SortDesc(SubSeq(pairs, 1, Len(pairs) - 1)), pairs[Len(pairs)])

RECURSIVE TsIndexedOffByOne(_, _, _)
\* mutant: the class id is recorded one too high
TsIndexedOffByOne(maxProb, numClasses, i) ==
  IF i >= numClasses - 1 THEN << >>
  ELSE (IF maxProb[i + 1] > ScoreThreshold
          THEN << << i + 1, maxProb[i + 1] >> >> ELSE << >>)
       \o TsIndexedOffByOne(maxProb, numClasses, i + 1)

RECURSIVE TsIndexed(_, _, _)
\* the pairs [i, maxProb[i]] with maxProb[i] > 0.001, for class i .. numClasses-2
TsIndexed(maxProb, numClasses, i) ==
  IF i >= numClasses - 1 THEN << >>
  ELSE (IF maxProb[i + 1] > ScoreThreshold THEN << << i, maxProb[i + 1] >> >> ELSE << >>)
       \o TsIndexed(maxProb, numClasses, i + 1)

\* the top-K part of runFCAndDecode
TsTopK(maxProb, numClasses, topK) ==
  LET sorted == SortDesc(TsIndexed(maxProb, numClasses, 0))
      n == IF topK < Len(sorted) THEN topK ELSE Len(sorted)
      topResults == SubSeq(sorted, 1, n)
  IN [indices |-> Arr([k \in 1..n |-> topResults[k][1]]),
      scores |-> Arr([k \in 1..n |-> topResults[k][2]])]

TsRunFCAndDecode(fc, input, T, inputSize, numClasses, topK) ==
  LET maxProb == TsMaxProb(fc, input, T, inputSize, numClasses,
                           [t |-> 0, maxProb |-> Arr([i \in 1..numClasses |-> 0])])
      top == TsTopK(maxProb, numClasses, topK)
  IN [indices |-> top.indices, scores |-> top.scores, maxProb |-> maxProb]

TsRunInference(weights, features, T, topK) ==
  LET H == weights.header.hiddenSize
      current == TsRunLayers(weights.layers, features, T, H)
  IN After(current,
           TsRunFCAndDecode(weights.fc, current, T, H * 2, weights.header.numClasses, topK))

\* ------------------------------------------------- WASM engine: init/layout
RECURSIVE InitTable(_, _, _, _, _, _)
\* init's walk over the weight layout: stores the per-layer input size
\* (table word 9 + l) and the two direction bases (table word 2l + d)
InitTable(l, numLayers, H, numFeatures, wOff, table) ==
  IF l >= numLayers
    THEN [table |-> table, wOff |-> wOff]
    ELSE LET inputSize == IF l = 0 THEN numFeatures ELSE H * 2
             dirLen == NUM_GATES * (4 + H * inputSize) + NUM_GATES * (4 + H * H)
                       + NUM_GATES * H * 4
             t1 == [table EXCEPT ![9 + l] = inputSize]
             t2 == [t1 EXCEPT ![l * 2] = wOff]
             t3 == [t2 EXCEPT ![l * 2 + 1] = wOff + dirLen]
         IN InitTable(l + 1, numLayers, H, numFeatures, wOff + 2 * dirLen, t3)

\* init(numLayers, H, numClasses, numFeatures, weightsLen); byte addresses,
\* __heap_base taken as address 0
init(numLayers, H, numClasses, numFeatures, weightsLen) ==
  LET H2 == H * 2
      tableOff == 0
      weightsOff == tableOff + 64
      featuresOff == weightsOff + weightsLen
      outputAOff == featuresOff + (MAX_T * numFeatures) * 4
      outputBOff == outputAOff + (MAX_T * H2) * 4
      tempFwOff == outputBOff + (MAX_T * H2) * 4
      tempBwOff == tempFwOff + (MAX_T * H) * 4
      gatesOff == tempBwOff + (MAX_T * H) * 4
      hOff == gatesOff + (NUM_GATES * H) * 4
      cOff == hOff + H * 4
      logitsOff == cOff + H * 4
      maxProbOff == logitsOff + numClasses * 4
      resultIdxOff == maxProbOff + numClasses * 4
      resultScrOff == resultIdxOff + MAX_TOP_K * 4
      totalBytes == resultScrOff + MAX_TOP_K * 4
      walk == InitTable(0, numLayers, H, numFeatures, weightsOff, [w \in 0..24 |-> 0])
  IN [H |-> H, numClasses |-> numClasses, numFeatures |-> numFeatures,
      tableOff |-> tableOff, weightsOff |-> weightsOff, featuresOff |-> featuresOff,
      outputAOff |-> outputAOff, outputBOff |-> outputBOff,
      tempFwOff |-> tempFwOff, tempBwOff |-> tempBwOff, gatesOff |-> gatesOff,
      hOff |-> hOff, cOff |-> cOff, logitsOff |-> logitsOff,
      maxProbOff |-> maxProbOff, resultIdxOff |-> resultIdxOff,
      resultScrOff |-> resultScrOff, totalBytes |-> totalBytes,
      table |-> [walk.table EXCEPT ![8] = walk.wOff]]

\* the engine state left by createWasmEngine's call of init
Engine == init(NUM_LAYERS, HiddenSize, NumClasses, NumFeatures, Len(ModelBytes[0]))

loadDirBase(layer, dir) == Engine.table[layer * 2 + dir]
loadFcBase == Engine.table[8]
loadLayerInputSize(layer) == Engine.table[9 + layer]

\* Scratch memory: the f32/i32 words from _featuresOff up to totalBytes.
\* mem[w + 1] is the word at address _featuresOff + 4w.
MemWords == (Engine.totalBytes - Engine.featuresOff) \div 4
WordOf(addr) == (addr - Engine.featuresOff) \div 4

LoadSeq(m, addr, n) == SubSeq(m, WordOf(addr) + 1, WordOf(addr) + n)

StoreSeq(m, addr, vals) ==
  SubSeq(m, 1, WordOf(addr)) \o vals \o SubSeq(m, WordOf(addr) + Len(vals) + 1, Len(m))

\* load<f32> / load<i8> from the weight region (a copy of the raw weight bytes)
LoadWeightF32(bytes, addr) == GetFloat32(bytes, addr - Engine.weightsOff)
LoadWeightI8(bytes, addr) == Int8(bytes[addr - Engine.weightsOff + 1])

\* -------------------------------------------------- WASM engine: inference
\* y[i] += scale * sum_j int8(W[i,j]) * x[j], y and x in scratch memory
WasmMatvecAddQuantized(m, bytes, yOff, wOff, scale, xOff, rows, cols) ==
  LET x == LoadSeq(m, xOff, cols)
      y == LoadSeq(m, yOff, rows)
  IN StoreSeq(m, yOff,
       Arr([i \in 1..rows |->
          y[i] + Mul(scale, SumTo(Arr([j \in 1..cols |->
                                     LoadWeightI8(bytes, wOff + (i - 1) * cols + (j - 1)) * x[j]]),
                                  cols))]))

RECURSIVE WasmGateMatvecs(_, _, _, _, _, _, _, _)
\* for g in 0..3: gates[g] += W_g * x, W_g at base + g * stride
WasmGateMatvecs(m, bytes, base, stride, xOff, H, cols, g) ==
  IF g >= NUM_GATES
    THEN m
    ELSE After(m,
           WasmGateMatvecs(
             WasmMatvecAddQuantized(m, bytes, Engine.gatesOff + (g * H) * 4,
                                    base + g * stride + 4,
                                    LoadWeightF32(bytes, base + g * stride),
                                    xOff, H, cols),
             bytes, base, stride, xOff, H, cols, g + 1))

\* the activation loop of one timestep: c and h are updated in place and
\* h is copied to output[t]; m holds the four gate pre-activations
WasmLstmActivations(m, H, outputOff, t) ==
  LET gates == LoadSeq(m, Engine.gatesOff, NUM_GATES * H)
      cOld == LoadSeq(m, Engine.cOff, H)
      newC == Arr([i \in 1..H |->
                 Mul(Sigmoid(gates[2 * H + i]), cOld[i])
                 + Mul(Sigmoid(gates[i]), Tanh(gates[H + i]))])
      newH == Arr([i \in 1..H |-> Mul(Sigmoid(gates[3 * H + i]), Tanh(newC[i]))])
      m4 == StoreSeq(StoreSeq(m, Engine.cOff, newC), Engine.hOff, newH)
  IN StoreSeq(m4, outputOff + (t * H) * 4, LoadSeq(m4, Engine.hOff, H))

\* one timestep of runLSTMDirection: biases into gates, input and recurrent
\* contributions, activations
WasmLstmStep(m, bytes, dirBase, inputOff, T, inputSize, H, reverse, outputOff, step) ==
  LET inputGateStride == 4 + H * inputSize
      recGateStride == 4 + H * H
      recBaseOff == dirBase + NUM_GATES * inputGateStride
      biasBaseOff == recBaseOff + NUM_GATES * recGateStride
      t == TimestepOf(T, reverse, step)
      xOff == inputOff + (t * inputSize) * 4
  IN WasmLstmActivations(
       WasmGateMatvecs(
         WasmGateMatvecs(
           StoreSeq(m, Engine.gatesOff,
                    ReadFloat32Array(bytes, biasBaseOff - Engine.weightsOff, NUM_GATES * H)),
           bytes, dirBase, inputGateStride, xOff, H, inputSize, 0),
         bytes, recBaseOff, recGateStride, Engine.hOff, H, H, 0),
       H, outputOff, t)

RECURSIVE WasmLstmLoop(_, _, _, _, _, _, _, _, _, _)
WasmLstmLoop(m, bytes, dirBase, inputOff, T, inputSize, H, reverse, outputOff, step) ==
  IF step >= T
    THEN m
    ELSE After(m,
           WasmLstmLoop(
             WasmLstmStep(m, bytes, dirBase, inputOff, T, inputSize, H, reverse,
                          outputOff, step),
             bytes, dirBase, inputOff, T, inputSize, H, reverse, outputOff, step + 1))

\* mutant: h and c are not zero-filled at the start of a direction
WasmRunLSTMDirectionNoReset(m, bytes, dirBase, inputOff, T, inputSize, H, reverse, outputOff) ==
  WasmLstmLoop(m, bytes, dirBase, inputOff, T, inputSize, H, reverse, outputOff, 0)

\* mutant: only h is zero-filled at the start of a direction
WasmLstmStartKeepC(m, H) == StoreSeq(m, Engine.hOff, Arr([i \in 1..H |-> 0]))

\* memory.fill(_hOff, 0, H << 2); memory.fill(_cOff, 0, H << 2)
WasmLstmStart(m, H) ==
  StoreSeq(StoreSeq(m, Engine.hOff, Arr([i \in 1..H |-> 0])),
           Engine.cOff, Arr([i \in 1..H |-> 0]))

WasmRunLSTMDirection(m, bytes, dirBase, inputOff, T, inputSize, H, reverse, outputOff) ==
  WasmLstmLoop(WasmLstmStart(m, H),
               bytes, dirBase, inputOff, T, inputSize, H, reverse, outputOff, 0)

RECURSIVE WasmInterleave(_, _, _, _, _)
\* output[t] = [fw[t], bw[t]]
WasmInterleave(m, outputOff, T, H, t) ==
  IF t >= T
    THEN m
    ELSE LET outOff == outputOff + (t * H * 2) * 4
             m1 == StoreSeq(m, outOff, LoadSeq(m, Engine.tempFwOff + (t * H) * 4, H))
         IN After(m,
              WasmInterleave(
                StoreSeq(m1, outOff + H * 4, LoadSeq(m1, Engine.tempBwOff + (t * H) * 4, H)),
                outputOff, T, H, t + 1))

WasmRunBiLSTMLayer(m, bytes, layer, inputOff, T, outputOff) ==
  WasmInterleave(
    WasmRunLSTMDirection(
      WasmRunLSTMDirection(m, bytes, loadDirBase(layer, 0), inputOff, T,
                           loadLayerInputSize(layer), Engine.H, FALSE, Engine.tempFwOff),
      bytes, loadDirBase(layer, 1), inputOff, T,
      loadLayerInputSize(layer), Engine.H, TRUE, Engine.tempBwOff),
    outputOff, T, Engine.H, 0)

\* f32.MIN_VALUE, the smallest positive f32 (1.4e-45): 0 at resolution 1/Unit
F32_MIN_VALUE == 0

RECURSIVE WasmMaxLogit(_, _, _)
\* let maxLogit = f32.MIN_VALUE; for i: if (v > maxLogit) maxLogit = v
WasmMaxLogit(logits, i, maxLogit) ==
  IF i > Len(logits) THEN maxLogit
  ELSE WasmMaxLogit(logits, i + 1, IF logits[i] > maxLogit THEN logits[i] ELSE maxLogit)

\* the softmax part of one timestep: exp in place over the logits, then the
\* running maximum of the probabilities (blank, the last class, skipped)
WasmSoftmaxMax(m, numClasses) ==
  LET logits == LoadSeq(m, Engine.logitsOff, numClasses)
      maxLogit == WasmMaxLogit(logits, 1, F32_MIN_VALUE)
      e == Arr([i \in 1..numClasses |-> Exp(logits[i] - maxLogit)])
      m3 == StoreSeq(m, Engine.logitsOff, e)
      invSum == Div(Unit, SumTo(e, numClasses))
      mp == LoadSeq(m3, Engine.maxProbOff, numClasses)
  IN StoreSeq(m3, Engine.maxProbOff,
       Arr([i \in 1..numClasses |->
          IF i <= numClasses - 1 /\ Mul(e[i], invSum) > mp[i]
            THEN Mul(e[i], invSum) ELSE mp[i]]))

\* logits = biases; logits += scale * W * x (timestep t)
WasmFcLogits(m, bytes, inputOff, inputSize, numClasses, t) ==
  LET fcWeightsOff == loadFcBase + 4
      fcBiasesOff == fcWeightsOff + numClasses * inputSize
  IN WasmMatvecAddQuantized(
       StoreSeq(m, Engine.logitsOff,
                ReadFloat32Array(bytes, fcBiasesOff - Engine.weightsOff, numClasses)),
       bytes, Engine.logitsOff, fcWeightsOff, LoadWeightF32(bytes, loadFcBase),
       inputOff + (t * inputSize) * 4, numClasses, inputSize)

\* one timestep of runFCAndDecode's loop
WasmFcStep(m, bytes, inputOff, inputSize, numClasses, t) ==
  WasmSoftmaxMax(WasmFcLogits(m, bytes, inputOff, inputSize, numClasses, t), numClasses)

RECURSIVE WasmFcLoop(_, _, _, _, _, _, _)
WasmFcLoop(m, bytes, inputOff, inputSize, numClasses, T, t) ==
  IF t >= T THEN m
  ELSE After(m,
         WasmFcLoop(WasmFcStep(m, bytes, inputOff, inputSize, numClasses, t),
                    bytes, inputOff, inputSize, numClasses, T, t + 1))

RECURSIVE RescanMin(_, _, _, _)
\* re-scan for the new minimum: st = [minScore, minSlot], slots j .. topK-1
RescanMin(scr, topK, j, st) ==
  IF j >= topK THEN st
  ELSE RescanMin(scr, topK, j + 1,
                 IF scr[j + 1] < st.minScore
                   THEN [minScore |-> scr[j + 1], minSlot |-> j] ELSE st)

\* one iteration of findTopK's selection loop for class i;
\* st = [idx, scr, count, minScore, minSlot], idx/scr the two result arrays
FindTopKStep(st, prob, i, topK) ==
  IF prob <= ScoreThreshold THEN st
  ELSE IF st.count < topK
    THEN LET newMin == st.count = 0 \/ prob < st.minScore
         IN [idx |-> [st.idx EXCEPT ![st.count + 1] = i],
             scr |-> [st.scr EXCEPT ![st.count + 1] = prob],
             count |-> st.count + 1,
             minScore |-> IF newMin THEN prob ELSE st.minScore,
             minSlot |-> IF newMin THEN st.count ELSE st.minSlot]
  ELSE IF prob > st.minScore
    THEN LET idx == [st.idx EXCEPT ![st.minSlot + 1] = i]
             scr == [st.scr EXCEPT ![st.minSlot + 1] = prob]
             r == RescanMin(scr, topK, 0, [minScore |-> prob, minSlot |-> 0])
         IN [idx |-> idx, scr |-> scr, count |-> st.count,
             minScore |-> r.minScore, minSlot |-> r.minSlot]
  ELSE st

RECURSIVE FindTopKLoop(_, _, _, _, _)
FindTopKLoop(st, maxProb, numClasses, topK, i) ==
  IF i >= numClasses - 1 THEN st
  ELSE After(st,
         FindTopKLoop(FindTopKStep(st, maxProb[i + 1], i, topK),
                      maxProb, numClasses, topK, i + 1))

\* the insertion sort of the first count entries of the result arrays
\* (descending by score); sel is the state the selection loop ended in
SortResults(m, sel) ==
  LET sorted == SortDesc(Arr([k \in 1..sel.count |-> << sel.idx[k], sel.scr[k] >>]))
      idx == Arr([k \in 1..MAX_TOP_K |-> IF k <= sel.count THEN sorted[k][1] ELSE sel.idx[k]])
      scr == Arr([k \in 1..MAX_TOP_K |-> IF k <= sel.count THEN sorted[k][2] ELSE sel.scr[k]])
  IN [mem |-> StoreSeq(StoreSeq(m, Engine.resultIdxOff, idx), Engine.resultScrOff, scr),
      count |-> sel.count]

\* findTopK(topK): selection into the result arrays, then the sort;
\* returns the memory and count
findTopK(m, topK) ==
  SortResults(m,
    FindTopKLoop([idx |-> LoadSeq(m, Engine.resultIdxOff, MAX_TOP_K),
                  scr |-> LoadSeq(m, Engine.resultScrOff, MAX_TOP_K),
                  count |-> 0, minScore |-> 0, minSlot |-> 0],
                 LoadSeq(m, Engine.maxProbOff, Engine.numClasses),
                 Engine.numClasses, topK, 0))

WasmRunFCAndDecode(m, bytes, inputOff, T, topK) ==
  findTopK(
    WasmFcLoop(StoreSeq(m, Engine.maxProbOff, Arr([i \in 1..Engine.numClasses |-> 0])),
               bytes, inputOff, Engine.H * 2, Engine.numClasses, T, 0),
    topK)

\* the buffers of the four runBiLSTMLayer calls of infer
WasmLayerBuffers(layer) ==
  [input |-> IF layer = 0 THEN Engine.featuresOff
             ELSE IF layer % 2 = 1 THEN Engine.outputAOff
             ELSE Engine.outputBOff,
   output |-> IF layer % 2 = 0 THEN Engine.outputAOff ELSE Engine.outputBOff]

RECURSIVE WasmRunLayers(_, _, _, _)
\* the four runBiLSTMLayer calls of infer: features -> A -> B -> A -> B
WasmRunLayers(m, bytes, layer, T) ==
  IF layer >= NUM_LAYERS
    THEN m
    ELSE After(m,
           WasmRunLayers(
             WasmRunBiLSTMLayer(m, bytes, layer, WasmLayerBuffers(layer).input, T,
                                WasmLayerBuffers(layer).output),
             bytes, layer + 1, T))

\* infer(T, topK): clamp, 4 BiLSTM layers ping-ponging between A and B, decode
infer(m, bytes, T0, topK0) ==
  LET topK == IF topK0 > MAX_TOP_K THEN MAX_TOP_K ELSE topK0
      T == IF T0 > MAX_T THEN MAX_T ELSE T0
  IN WasmRunFCAndDecode(WasmRunLayers(m, bytes, 0, T), bytes, Engine.outputBOff, T, topK)

\* the result arrays read back by the host: the first count entries
\* (maxProb, the engine's running-maximum array, is carried along for the
\* properties; the host does not read it)
ReadResults(r) ==
  [mem |-> r.mem,
   indices |-> LoadSeq(r.mem, Engine.resultIdxOff, r.count),
   scores |-> LoadSeq(r.mem, Engine.resultScrOff, r.count),
   maxProb |-> LoadSeq(r.mem, Engine.maxProbOff, Engine.numClasses)]

\* WasmInferenceEngine.runInference: copy T x numFeatures features in, infer,
\* read count results back
\* the words the host writes at getFeaturesPtr(): a view of T x numFeatures
\* floats filled from features.subarray(0, T * numFeatures)
FeaturesWritten(features, T) == SubSeq(features, 1, T * Engine.numFeatures)

WasmRunInference(m, bytes, features, T, topK) ==
  ReadResults(infer(StoreSeq(m, Engine.featuresOff, FeaturesWritten(features, T)),
                    bytes, T, topK))

RECURSIVE WasmDirectionRuns(_, _, _, _, _, _)
\* the two runLSTMDirection calls of one layer; done[k] is the memory after
\* run k: 1 forward, 2 backward (from done[1])
WasmDirectionRuns(entry, bytes, layer, inputOff, T, done) ==
  IF Len(done) = 2 THEN done
  ELSE After(done, WasmDirectionRuns(entry, bytes, layer, inputOff, T,
         Append(done,
           WasmRunLSTMDirection(
             IF Len(done) = 0 THEN entry ELSE done[1],
             bytes, loadDirBase(layer, Len(done) % 2), inputOff, T,
             loadLayerInputSize(layer), Engine.H, Len(done) % 2 = 1,
             IF Len(done) % 2 = 0 THEN Engine.tempFwOff ELSE Engine.tempBwOff))))

\* what one runBiLSTMLayer call did, from the memories after its direction
\* runs: h and c as each direction starts on them (and whether the memory
\* it was given held other values there), the rows each direction wrote,
\* the input rows before and after
\* the call and the output rows; m is the memory at the exit
WasmLayerRecord(entry, layer, runs, inputOff, T, outputOff, exit) ==
  [m |-> exit,
   rec |-> [layer |-> layer,
            stale |-> /\ LoadSeq(entry, Engine.hOff, 2 * Engine.H)
                           # Arr([i \in 1..(2 * Engine.H) |-> 0])
                      /\ LoadSeq(runs[1], Engine.hOff, 2 * Engine.H)
                           # Arr([i \in 1..(2 * Engine.H) |-> 0]),
            startFw |-> LoadSeq(WasmLstmStart(entry, Engine.H), Engine.hOff, 2 * Engine.H),
            startBw |-> LoadSeq(WasmLstmStart(runs[1], Engine.H), Engine.hOff, 2 * Engine.H),
            fw |-> LoadSeq(runs[1], Engine.tempFwOff, T * Engine.H),
            bw |-> LoadSeq(runs[2], Engine.tempBwOff, T * Engine.H),
            inputBefore |-> LoadSeq(entry, inputOff, T * loadLayerInputSize(layer)),
            inputAfter |-> LoadSeq(exit, inputOff, T * loadLayerInputSize(layer)),
            output |-> LoadSeq(exit, outputOff, T * Engine.H * 2)]]

\* runBiLSTMLayer, recorded
WasmLayerTrace(entry, bytes, layer, inputOff, T, outputOff, runs) ==
  WasmLayerRecord(entry, layer, runs, inputOff, T, outputOff,
                  WasmInterleave(runs[2], outputOff, T, Engine.H, 0))

WasmTraceStep(st, r) == [m |-> r.m, layers |-> Append(st.layers, r.rec)]

RECURSIVE WasmTrace(_, _, _, _)
\* the four runBiLSTMLayer calls of infer, recorded: st = [m, layers]
WasmTrace(st, bytes, layer, T) ==
  IF layer >= NUM_LAYERS THEN st.layers
  ELSE After(st,
         WasmTrace(
           WasmTraceStep(st,
             WasmLayerTrace(st.m, bytes, layer, WasmLayerBuffers(layer).input, T,
                            WasmLayerBuffers(layer).output,
                            WasmDirectionRuns(st.m, bytes, layer,
                                              WasmLayerBuffers(layer).input, T, << >>))),
           bytes, layer + 1, T))

\* ------------------------------------------------------------ model loading
\* Headers and weight buffers tried at load time (real: 4/192/12362/10)
MaxLayers == 5
MaxHidden == 2
MaxClasses == 2
MaxInFeatures == 2
\* number of weight sets per header, and how many bytes a buffer may lack
NumSeeds == 2
MaxCut == 6

Headers ==
  {Header(n, H, c, f) : n \in 1..MaxLayers, H \in 1..MaxHidden,
                        c \in 1..MaxClasses, f \in 1..MaxInFeatures}

\* the weights a model file is made from: kernel bytes, scales and biases
SampleByte(k) == (k * 37 + 11) % 256
SampleFloat(k) ==
  << Unit \div 2, -Unit, 3, 16777216 + 5, -16777217, 0 >>[(k % 6) + 1]

SampleDirection(H, inputSize, seed) ==
  [inputKernels |-> Arr([g \in 1..4 |->
                       Arr([k \in 1..(H * inputSize) |-> SampleByte(seed + 3 * g + k)])]),
   inputScales |-> Arr([g \in 1..4 |-> SampleFloat(seed + g)]),
   recKernels |-> Arr([g \in 1..4 |->
                     Arr([k \in 1..(H * H) |-> SampleByte(seed + 5 * g + k + 1)])]),
   recScales |-> Arr([g \in 1..4 |-> SampleFloat(seed + 2 * g + 1)]),
   biases |-> Arr([g \in 1..4 |-> Arr([i \in 1..H |-> SampleFloat(seed + g + i + 2)])])]

SampleWeights(header, seed) ==
  [layers |-> Arr([l \in 1..header.numLayers |->
                 LET inputSize == IF l = 1 THEN header.numFeatures
                                  ELSE header.hiddenSize * 2
                 IN [forward |-> SampleDirection(header.hiddenSize, inputSize, seed + 7 * l),
                     backward |-> SampleDirection(header.hiddenSize, inputSize,
                                                  seed + 7 * l + 4),
                     inputSize |-> inputSize]]),
   fc |-> [weights |-> Arr([k \in 1..(header.numClasses * header.hiddenSize * 2) |->
                          SampleByte(seed + 2 * k)]),
           scale |-> SampleFloat(seed + 1),
           biases |-> Arr([i \in 1..header.numClasses |-> SampleFloat(seed + 3 * i)])]]

\* the sequential weight layout: per gate a float32 scale then the kernel
\* bytes (input kernels, then recurrent kernels), then the float32 biases
SerializeGates(scales, kernels) ==
  Flatten(Arr([g \in 1..Len(scales) |-> Float32Bytes(scales[g]) \o kernels[g]]))

SerializeFloats(values) ==
  Flatten(Arr([i \in 1..Len(values) |-> Float32Bytes(values[i])]))

SerializeDirection(dir) ==
  SerializeGates(dir.inputScales, dir.inputKernels)
  \o SerializeGates(dir.recScales, dir.recKernels)
  \o Flatten(Arr([g \in 1..Len(dir.biases) |-> SerializeFloats(dir.biases[g])]))

Serialize(w) ==
  Flatten(Arr([l \in 1..Len(w.layers) |->
             SerializeDirection(w.layers[l].forward)
             \o SerializeDirection(w.layers[l].backward)]))
  \o Float32Bytes(w.fc.scale) \o w.fc.weights \o SerializeFloats(w.fc.biases)

\* the weight bytes handed to the load paths: the first len bytes of the file's
Buffer(l) == SubSeq(Serialize(SampleWeights(l.header, l.seed)), 1, l.len)

\* lengths tried for a file of total bytes: complete, a few bytes short,
\* half, empty
Lengths(total) == {total - c : c \in 0..MaxCut} \cup {total \div 2, 0}

\* bytes of one direction: 4 input gates, 4 recurrent gates, 4 bias arrays
DirBytes(H, inputSize) ==
  NUM_GATES * (4 + H * inputSize) + NUM_GATES * (4 + H * H) + NUM_GATES * H * 4

\* the total length the header implies for the weight buffer
LayoutLength(header) ==
  2 * DirBytes(header.hiddenSize, header.numFeatures)
  + (header.numLayers - 1) * 2 * DirBytes(header.hiddenSize, header.hiddenSize * 2)
  + 4 + header.numClasses * header.hiddenSize * 2 + 4 * header.numClasses

NoWeights == ParseThrown(0, 0, 0, 0)
NoEngine == init(0, 0, 0, 0, 0)

\* the addresses runLSTMDirection derives for one direction of a layer from
\* the offset table, relative to the weights base: per gate the input scale,
\* the recurrent scale and the bias vector
WasmDirOffsets(eng, layer, dir) ==
  LET dirBase == eng.table[layer * 2 + dir]
      inputSize == eng.table[9 + layer]
      inputGateStride == 4 + eng.H * inputSize
      recGateStride == 4 + eng.H * eng.H
      biasBytes == eng.H * 4
      recBaseOff == dirBase + NUM_GATES * inputGateStride
      biasBaseOff == recBaseOff + NUM_GATES * recGateStride
  IN [inputOffs |-> Arr([g \in 1..NUM_GATES |->
                      dirBase + (g - 1) * inputGateStride - eng.weightsOff]),
      recOffs |-> Arr([g \in 1..NUM_GATES |->
                    recBaseOff + (g - 1) * recGateStride - eng.weightsOff]),
      biasOffs |-> Arr([g \in 1..NUM_GATES |->
                     biasBaseOff + (g - 1) * biasBytes - eng.weightsOff])]

\* the layers runInference chains: one per entry of weights.layers, each
\* consuming rows of its inputSize
TsLayerChain(weights) ==
  Arr([k \in 1..Len(weights.layers) |->
     [layer |-> k - 1, inputSize |-> weights.layers[k].inputSize]])

\* the layers infer chains: always layers 0..3, each with the input size the
\* offset table holds for it
WasmLayerChain(eng) ==
  Arr([k \in 1..NUM_LAYERS |-> [layer |-> k - 1, inputSize |-> eng.table[9 + (k - 1)]]])

InitLoad ==
  /\ \E header \in Headers, seed \in 0..(NumSeeds - 1) :
       \E len \in Lengths(Len(Serialize(SampleWeights(header, seed)))) :
         load = [header |-> header, seed |-> seed, len |-> len,
                 ts |-> "none", weights |-> NoWeights,
                 wasm |-> "none", engine |-> NoEngine,
                 tsRan |-> << >>, wasmRan |-> << >>]
  /\ pc = "loading"
  /\ model = 0
  /\ mem = << >>
  /\ call = [features |-> << >>, T |-> 0, topK |-> 0]
  /\ tsOut = [indices |-> << >>, scores |-> << >>, maxProb |-> << >>]
  /\ wasmOut = [indices |-> << >>, scores |-> << >>, maxProb |-> << >>]
  /\ strokeList = << >>
  /\ fit = << >>
  /\ pre = [threw |-> FALSE, features |-> << >>, numSegments |-> 0]
  /\ pad = [created |-> "pending"]
  /\ worker = [engine |-> FALSE, init |-> "idle"]
  /\ toWorker = << >>
  /\ toMain = << >>
  /\ now = 0

\* the TypeScript load path: parseWeights(model)
LoadTs ==
  /\ load.ts = "none"
  /\ \E w \in {parseWeights(Buffer(load), load.header.numLayers, load.header.hiddenSize,
                            load.header.numClasses, load.header.numFeatures)} :
       load' = [load EXCEPT !.ts = IF w.threw THEN "error" ELSE "loaded", !.weights = w]
  /\ UNCHANGED << inferVars, pc, preVars, padVars >>

\* the WASM load path: createWasmEngine calls init with rawWeights.length and
\* copies the bytes; nothing compares the length with the header
LoadWasm ==
  /\ load.wasm = "none"
  /\ load' = [load EXCEPT !.wasm = "loaded",
                          !.engine = init(load.header.numLayers, load.header.hiddenSize,
                                          load.header.numClasses, load.header.numFeatures,
                                          load.len)]
  /\ UNCHANGED << inferVars, pc, preVars, padVars >>

\* runInference on the parsed weights
InferTs ==
  /\ load.ts = "loaded"
  /\ load.tsRan = << >>
  /\ load' = [load EXCEPT !.tsRan = TsLayerChain(load.weights)]
  /\ UNCHANGED << inferVars, pc, preVars, padVars >>

\* runInference of the WASM engine
InferWasm ==
  /\ load.wasm = "loaded"
  /\ load.wasmRan = << >>
  /\ load' = [load EXCEPT !.wasmRan = WasmLayerChain(load.engine)]
  /\ UNCHANGED << inferVars, pc, preVars, padVars >>

NextLoad ==
  \/ LoadTs
  \/ LoadWasm
  \/ InferTs
  \/ InferWasm

SpecLoad == InitLoad /\ [][NextLoad]_vars

\* ------------------------------------------------ inference state machine
\* Both engines serve the same sequence of calls (as the benchmark test does:
\* first the TypeScript engine, then the WASM engine); the WASM engine is one
\* instance whose memory persists from call to call.
FeaturePattern(s, n) == Arr([k \in 1..n |-> Unit * (((s + k * k) % 3) - 1)])

NoCall == [features |-> << >>, T |-> 0, topK |-> 0]

NoResult == [indices |-> << >>, scores |-> << >>, maxProb |-> << >>]

\* the maxProb buffer of the WASM engine (numClasses floats at _maxProbOff)
\* the parts of the program a specification leaves at rest
NoLoad == [len |-> 0]
NoPad == [created |-> "pending"]
\* a worker whose handleInit has completed: engine is set
LoadedWorker == [engine |-> TRUE, init |-> "ready"]

InitInfer ==
  /\ load = NoLoad
  /\ pad = NoPad
  /\ worker = LoadedWorker
  /\ toWorker = << >>
  /\ toMain = << >>
  /\ now = 0
  /\ model \in ModelIds
  /\ mem = Arr([w \in 1..MemWords |-> 0])
  /\ call = NoCall
  /\ tsOut = NoResult
  /\ wasmOut = NoResult
  /\ pc = "idle"
  /\ strokeList = << >>
  /\ fit = << >>
  /\ pre = [threw |-> FALSE, features |-> << >>, numSegments |-> 0]

Request(s, T, topK) ==
  /\ pc \in {"idle", "done"}
  /\ call' = [features |-> FeaturePattern(s, T * NumFeatures), T |-> T, topK |-> topK]
  /\ pc' = "ts"
  /\ UNCHANGED << model, mem, tsOut, wasmOut, strokeList, fit, pre, load, padVars >>

RunTs ==
  /\ pc = "ts"
  /\ tsOut' = TsRunInference(ModelWeights[model], call.features, call.T, call.topK)
  /\ pc' = "wasm"
  /\ UNCHANGED << model, mem, call, wasmOut, strokeList, fit, pre, load, padVars >>

RunWasm ==
  /\ pc = "wasm"
  /\ \E r \in {WasmRunInference(mem, ModelBytes[model], call.features, call.T, call.topK)} :
       /\ mem' = r.mem
       /\ wasmOut' = [indices |-> r.indices, scores |-> r.scores, maxProb |-> r.maxProb]
  /\ pc' = "done"
  /\ UNCHANGED << model, call, tsOut, strokeList, fit, pre, load, padVars >>

NextInfer ==
  \/ \E s \in 0..(NumInputs - 1), T \in 0..(MAX_T + 1), topK \in 0..(MAX_TOP_K + 1) :
       Request(s, T, topK)
  \/ RunTs
  \/ RunWasm

SpecInfer == InitInfer /\ [][NextInfer]_vars

\* ------------------------------------------------------ properties: decode
\* the non-blank classes whose running maximum exceeds the score threshold
Eligible(maxProb) == {i \in 0..(NumClasses - 2) : maxProb[i + 1] > ScoreThreshold}

Returned(out) == {out.indices[k] : k \in 1..Len(out.indices)}

\* out holds the highest-scoring classes of maxProb: no eligible class left
\* out beats a returned score, and nothing is left out while there is room
HoldsHighest(out, topK) ==
  /\ \A i \in Eligible(out.maxProb) \ Returned(out) :
       \A k \in 1..Len(out.scores) : ~(out.maxProb[i + 1] > out.scores[k])
  /\ Cardinality(Eligible(out.maxProb)) < topK => Eligible(out.maxProb) \subseteq Returned(out)

\* C1: after a call with 1 <= topK (within the WASM result capacity), each
\* engine's result holds the topK highest-scoring classes of that engine's
\* running maxima: no left-out class above the threshold beats a returned
\* score, and all classes above the threshold are returned when fewer than topK
TopKReturnsHighest ==
  (pc = "done" /\ call.topK >= 1 /\ call.topK <= MAX_TOP_K)
    => (HoldsHighest(tsOut, call.topK) /\ HoldsHighest(wasmOut, call.topK))

\* the two engines rank the non-blank classes alike: the same classes exceed
\* the threshold, in the same strict order, with no two maxima equal
SameRanking(a, b) ==
  \A i, j \in 0..(NumClasses - 2) :
    /\ (a[i + 1] > ScoreThreshold) <=> (b[i + 1] > ScoreThreshold)
    /\ (a[i + 1] > a[j + 1]) <=> (b[i + 1] > b[j + 1])
    /\ i # j => a[i + 1] # a[j + 1]

\* C2: for the same model, the same features with T <= MAX_T and the same
\* topK <= MAX_TOP_K, when the running maxima are pairwise distinct (and rank
\* the classes alike in both engines), the WASM engine returns the same
\* ordered list of class indices as the TypeScript engine
WasmMatchesTs ==
  (pc = "done" /\ call.T >= 1 /\ call.T <= MAX_T /\ call.topK <= MAX_TOP_K
     /\ SameRanking(tsOut.maxProb, wasmOut.maxProb))
    => wasmOut.indices = tsOut.indices

\* scores in non-increasing order, each above the threshold, at most topK
WellFormed(out, topK) ==
  /\ Len(out.indices) = Len(out.scores)
  /\ Len(out.scores) <= topK
  /\ \A k \in 1..Len(out.scores) : out.scores[k] > ScoreThreshold
  /\ \A k \in 1..(Len(out.scores) - 1) : out.scores[k] >= out.scores[k + 1]

\* C3: for every call (any topK >= 0) the scores returned by either engine
\* are in non-increasing order, each is strictly above the 0.001 threshold,
\* and at most topK pairs are returned
TopKInvariant ==
  pc = "done" => (WellFormed(tsOut, call.topK) /\ WellFormed(wasmOut, call.topK))

\* C3 witness: a call asking for two or more results got two from each
\* engine while a third class was above the threshold
TopKInvariantWitness ==
  /\ pc = "done"
  /\ call.topK >= 2
  /\ Len(tsOut.scores) >= 2
  /\ Len(wasmOut.scores) >= 2
  /\ Cardinality(Eligible(wasmOut.maxProb)) > Len(wasmOut.scores)

\* C4: whatever calls the WASM engine instance served before, the result of
\* the latest call equals the result the same call gets on a fresh instance
\* (zeroed memory)
NoStateLeak ==
  pc = "done" =>
    LET r == WasmRunInference(Arr([w \in 1..MemWords |-> 0]), ModelBytes[model],
                              call.features, call.T, call.topK)
    IN /\ wasmOut.indices = r.indices
       /\ wasmOut.scores = r.scores

\* C4 witness: a one-step call answered with results while the feature buffer
\* still holds a nonzero second step left by an earlier, longer call
NoStateLeakWitness ==
  /\ pc = "done"
  /\ call.T = 1
  /\ Len(wasmOut.indices) >= 1
  /\ \E k \in 1..NumFeatures :
       LoadSeq(mem, Engine.featuresOff + (NumFeatures * 4), NumFeatures)[k] # 0

\* C5: every class index returned by either engine is in 0..numClasses-2
BlankNeverEmitted ==
  pc = "done" =>
    /\ Returned(tsOut) \subseteq 0..(NumClasses - 2)
    /\ Returned(wasmOut) \subseteq 0..(NumClasses - 2)

\* C5 witness: both engines returned the last eligible class, numClasses-2
BlankNeverEmittedWitness ==
  /\ pc = "done"
  /\ (NumClasses - 2) \in Returned(tsOut)
  /\ (NumClasses - 2) \in Returned(wasmOut)

\* ------------------------------------------------------------ preprocessing
\* Raw strokes are lists of points <<x, y, t>>. Normalized coordinates are the
\* rationals X / D with one denominator D per stroke list; X carries a factor
\* 3 so that the one-third control points are integers too. A real number
\* that is a square root is kept as its sign s and its square n / d; d = 0
\* marks a value produced by the least-squares fits, which is not computed.
DEFAULT_SCALE == 7
MaxPts == 3
MaxStrokes == 3
RawPoints == {<< 0, 0 >>, << 3, 6 >>}
TimeStep == 3 * 1000

Sgn(x) == IF x > 0 THEN 1 ELSE IF x < 0 THEN -1 ELSE 0
Rational(x, d) == [s |-> Sgn(x), n |-> x * x, d |-> d * d]
Sqrt(n, d) == [s |-> Sgn(n), n |-> n, d |-> d]
Neg(v) == [v EXCEPT !.s = -v.s]
Zero == Rational(0, 1)
Unknown == [s |-> 0, n |-> 0, d |-> 0]
\* a control point placed by a least-squares fit
Fitted == << >>

Min(S) == CHOOSE x \in S : \A y \in S : x <= y
Max(S) == CHOOSE x \in S : \A y \in S : x >= y

Add(a, b) == << a[1] + b[1], a[2] + b[2] >>
Sub(a, b) == << a[1] - b[1], a[2] - b[2] >>
Dot(a, b) == a[1] * b[1] + a[2] * b[2]
Cross(a, b) == a[1] * b[2] - a[2] * b[1]

\* normalizeStrokes: bounding box over every point of every stroke, then
\* (x - minX) * s with s = scale / extent, or 1 when the extent is not positive
normalizeStrokes(strokes, scale) ==
  LET pts == UNION {{strokes[i][j] : j \in 1..Len(strokes[i])} : i \in 1..Len(strokes)}
      xs == {q[1] : q \in pts}
      ys == {q[2] : q \in pts}
      minX == IF pts = {} THEN 0 ELSE Min(xs)
      minY == IF pts = {} THEN 0 ELSE Min(ys)
      extent == IF pts = {} THEN -1 ELSE Max({Max(xs) - minX, Max(ys) - minY})
      num == IF extent > 0 THEN 3 * scale ELSE 3
  IN [D |-> IF extent > 0 THEN 3 * extent ELSE 3,
      strokes |-> Arr([i \in 1..Len(strokes) |->
                    Arr([j \in 1..Len(strokes[i]) |->
                      << (strokes[i][j][1] - minX) * num,
                         (strokes[i][j][2] - minY) * num,
                         strokes[i][j][3] >>])])]

\* ---------------------------------------------------------------- fitCurve
\* mutant: the tangent is scaled by the whole length of the chord
TangentStepWhole(v, chord) ==
  IF v = << 0, 0 >> \/ chord = << 0, 0 >> THEN << 0, 0 >>
  ELSE IF Cross(v, chord) # 0 THEN Fitted
  ELSE << Sgn(Dot(v, chord)) * chord[1], Sgn(Dot(v, chord)) * chord[2] >>

\* normalize(v) scaled by a third of the length of chord: exact when v is
\* zero, the chord is zero or v lies along the chord; otherwise not computed
TangentStep(v, chord) ==
  IF v = << 0, 0 >> \/ chord = << 0, 0 >> THEN << 0, 0 >>
  ELSE IF Cross(v, chord) # 0 THEN Fitted
  ELSE << Sgn(Dot(v, chord)) * (chord[1] \div 3), Sgn(Dot(v, chord)) * (chord[2] \div 3) >>

Offset(q, step) == IF step = Fitted THEN Fitted ELSE Add(q, step)

\* a segment: its four control points and the input indices of its end points
Segment(points, lo, hi, c1, c2) ==
  [cp |-> << points[lo + 1], c1, c2, points[hi + 1] >>, lo |-> lo, hi |-> hi]

RECURSIVE fitCubic(_, _, _, _, _, _)
\* fitCubic on the run points[lo..hi] (0-based, as slices of the stroke).
\* breaks is the set of input indices at which computeMaxError finds the
\* error of a fit above the tolerance: a run with no such interior index is
\* accepted as one curve, otherwise it is split there and both halves fitted.
fitCubic(points, lo, hi, leftTangent, rightTangent, breaks) ==
  IF hi - lo + 1 = 2
    THEN LET chord == Sub(points[hi + 1], points[lo + 1])
         IN << Segment(points, lo, hi,
                       Offset(points[lo + 1], TangentStep(leftTangent, chord)),
                       Offset(points[hi + 1], TangentStep(rightTangent, chord))) >>
  ELSE IF breaks \cap ((lo + 1)..(hi - 1)) = {}
    THEN << Segment(points, lo, hi, Fitted, Fitted) >>
  ELSE LET splitPoint == Min(breaks \cap ((lo + 1)..(hi - 1)))
           centerTangent == Sub(points[splitPoint], points[splitPoint + 2])
       IN fitCubic(points, lo, splitPoint, leftTangent, centerTangent, breaks)
          \o fitCubic(points, splitPoint, hi, Sub(<< 0, 0 >>, centerTangent),
                      rightTangent, breaks)

fitCurve(points, breaks) ==
  IF Len(points) < 2 THEN << >>
  ELSE fitCubic(points, 0, Len(points) - 1,
                Sub(points[2], points[1]),
                Sub(points[Len(points) - 1], points[Len(points)]), breaks)

\* ---------------------------------------------------------- bezierFeatures
\* mutant: the pen flag is stuck at 1
PenFlagStuck(penDown) == 1

PenFlag(penDown) == IF penDown THEN 1 ELSE 0

\* |v| / chordLen, or 0 (the array's initial value) when chordLen is 0
Ratio(v, chordSq) ==
  IF ~(chordSq > 0) THEN Zero
  ELSE IF v = Fitted THEN Unknown
  ELSE Sqrt(Dot(v, v), chordSq)

\* Math.atan2(cross, dot), kept as its two arguments
Atan2(v, cross, dot) == IF v = Fitted THEN Unknown ELSE [cross |-> cross, dot |-> dot]

\* the uniform-speed fallback: chord, chord / 3, -chord / 3 with
\* chord = chordLen / scale
ChordTiming(chordSq, scale, D) ==
  << Sqrt(chordSq, (D * scale) * (D * scale)),
     Sqrt(chordSq, 9 * (D * scale) * (D * scale)),
     Neg(Sqrt(chordSq, 9 * (D * scale) * (D * scale))) >>

\* timeFeatures is a triple, or << >> for undefined
bezierFeatures(seg, penDown, scale, timeFeatures, D) ==
  LET p0 == seg[1]
      p1 == seg[2]
      p2 == seg[3]
      p3 == seg[4]
      dx == p3[1] - p0[1]
      dy == p3[2] - p0[2]
      chordSq == dx * dx + dy * dy
      d1 == IF p1 = Fitted THEN Fitted ELSE Sub(p1, p0)
      d2 == IF p2 = Fitted THEN Fitted ELSE Sub(p2, p3)
      time == IF timeFeatures # << >> THEN timeFeatures ELSE ChordTiming(chordSq, scale, D)
  IN [f0 |-> PenFlag(penDown),
      f1 |-> Rational(dx, D * scale),
      f2 |-> Rational(dy, D * scale),
      f3 |-> Atan2(d1, dx * d1[2] - dy * d1[1], dx * d1[1] + dy * d1[2]),
      f4 |-> Ratio(d1, chordSq),
      f5 |-> Atan2(d2, dy * d2[1] - dx * d2[2], -(dx * d2[1] + dy * d2[2])),
      f6 |-> Ratio(d2, chordSq),
      f7 |-> time[1],
      f8 |-> time[2],
      f9 |-> time[3]]

\* ------------------------------------------------------- preprocessStrokes
\* mutant: the inner control points of the bridge sit on its end points
PenUpSegmentEnds(prevStroke, stroke) ==
  LET prevEnd == << prevStroke[Len(prevStroke)][1], prevStroke[Len(prevStroke)][2] >>
      curStart == << stroke[1][1], stroke[1][2] >>
  IN << prevEnd, prevEnd, curStart, curStart >>

\* the pen-up segment bridging prevStroke's last point to stroke's first
\* point, control points at one third and two thirds of the way
PenUpSegment(prevStroke, stroke) ==
  LET prevEnd == << prevStroke[Len(prevStroke)][1], prevStroke[Len(prevStroke)][2] >>
      curStart == << stroke[1][1], stroke[1][2] >>
      penUpP1 == << prevEnd[1] + (curStart[1] - prevEnd[1]) \div 3,
                    prevEnd[2] + (curStart[2] - prevEnd[2]) \div 3 >>
      penUpP2 == << curStart[1] - (curStart[1] - prevEnd[1]) \div 3,
                    curStart[2] - (curStart[2] - prevEnd[2]) \div 3 >>
  IN << prevEnd, penUpP1, penUpP2, curStart >>

\* time features of one fitted segment of a stroke with timestamps (ms):
\* fewer than 4 points give uniform timing; fitTimeBezier's T1, T2 are a
\* least-squares fit
TimeFeatures(stroke, seg) ==
  LET T0 == stroke[seg.lo + 1][3] \div 1000
      T3 == stroke[seg.hi + 1][3] \div 1000
      duration == T3 - T0
  IN IF ~(seg.lo >= 0 /\ seg.hi > seg.lo) THEN << >>
     ELSE IF seg.hi - seg.lo + 1 >= 4 THEN << Rational(duration, 1), Unknown, Unknown >>
     ELSE << Rational(duration, 1), Rational(duration \div 3, 1),
             Rational(-(duration \div 3), 1) >>

StrokeFeatures(stroke, beziers, scale, D) ==
  LET hasTimestamps == stroke[1][3] > 0 /\ stroke[Len(stroke)][3] > 0
  IN Arr([k \in 1..Len(beziers) |->
       bezierFeatures(beziers[k].cp, TRUE, scale,
                      IF hasTimestamps THEN TimeFeatures(stroke, beziers[k]) ELSE << >>, D)])

Thrown == [threw |-> TRUE, features |-> << >>, numSegments |-> 0]

RECURSIVE StrokeLoop(_, _, _, _, _, _)
\* the loop over strokeIdx (0-based); reading the last point of an empty
\* previous stroke throws a TypeError, which nothing catches
StrokeLoop(normalized, D, scale, breaks, strokeIdx, allFeatures) ==
  IF strokeIdx >= Len(normalized)
    THEN [threw |-> FALSE, features |-> allFeatures, numSegments |-> Len(allFeatures)]
  ELSE LET stroke == normalized[strokeIdx + 1]
           points == Arr([j \in 1..Len(stroke) |-> << stroke[j][1], stroke[j][2] >>])
       IN IF Len(points) < 2
            THEN StrokeLoop(normalized, D, scale, breaks, strokeIdx + 1, allFeatures)
          ELSE IF strokeIdx > 0 /\ Len(normalized[strokeIdx]) = 0
            THEN Thrown
          ELSE LET penUp == IF strokeIdx > 0
                              THEN << bezierFeatures(PenUpSegment(normalized[strokeIdx], stroke),
                                                     FALSE, scale, << >>, D) >>
                              ELSE << >>
                   beziers == fitCurve(points, breaks[strokeIdx + 1])
               IN StrokeLoop(normalized, D, scale, breaks, strokeIdx + 1,
                             allFeatures \o penUp \o StrokeFeatures(stroke, beziers, scale, D))

preprocessStrokes(strokes, scale, breaks) ==
  LET normalized == normalizeStrokes(strokes, scale)
  IN StrokeLoop(normalized.strokes, normalized.D, scale, breaks, 0, << >>)

\* ------------------------------------------- preprocessing state machine
\* a stroke of n points; with timestamps the i-th point is stamped i * TimeStep
StrokesOf(timed) ==
  UNION {{Arr([j \in 1..n |-> << f[j][1], f[j][2], IF timed THEN j * TimeStep ELSE 0 >>]) :
            f \in [1..n -> RawPoints]} : n \in 0..MaxPts}

StrokeLists(timed) == UNION {[1..k -> StrokesOf(timed)] : k \in 0..MaxStrokes}

NoFeatures == [threw |-> FALSE, features |-> << >>, numSegments |-> 0]

InitPre ==
  /\ load = NoLoad
  /\ pad = NoPad
  /\ worker = LoadedWorker
  /\ toWorker = << >>
  /\ toMain = << >>
  /\ now = 0
  /\ \E timed \in BOOLEAN : strokeList \in StrokeLists(timed)
  /\ fit = << >>
  /\ pre = NoFeatures
  /\ pc = "drawn"
  /\ model = 0
  /\ mem = << >>
  /\ call = NoCall
  /\ tsOut = NoResult
  /\ wasmOut = NoResult

Preprocess(breaks) ==
  /\ pc = "drawn"
  /\ fit' = breaks
  /\ pre' = preprocessStrokes(strokeList, DEFAULT_SCALE, breaks)
  /\ pc' = "preprocessed"
  /\ UNCHANGED << strokeList, model, mem, call, tsOut, wasmOut, load, padVars >>

\* worker responses (WorkerResponse); of names the strokes a result was
\* computed from
\* req names the recognize request a response answers (0: the init request)
ResultMsg(results) ==
  [type |-> "result", results |-> results, message |-> "", of |-> << >>, req |-> 0]
ErrorMsg(message) ==
  [type |-> "error", results |-> << >>, message |-> message, of |-> << >>, req |-> 0]
ReadyMsg == [type |-> "ready", results |-> << >>, message |-> "", of |-> << >>, req |-> 0]

\* what engine.runInference and the vocabulary lookup can hand back
Recognized == {<< >>, << [char |-> 0, score |-> Unit] >>}

\* mutant: the numSegments === 0 check is dropped
handleRecognizeNoCheck(engine, p, topK, recognized) ==
  IF ~engine THEN [msg |-> ErrorMsg("Error: Model not loaded"), invoked |-> FALSE]
  ELSE IF p.threw THEN [msg |-> ErrorMsg("TypeError"), invoked |-> FALSE]
  ELSE [msg |-> ResultMsg(recognized), invoked |-> TRUE]

\* handleRecognize inside onmessage's try/catch, from the outcome p of
\* preprocessStrokes on: the message responded and whether engine.runInference
\* was called (recognized is what it and the vocabulary lookup returned)
handleRecognize(engine, p, topK, recognized) ==
  IF ~engine THEN [msg |-> ErrorMsg("Error: Model not loaded"), invoked |-> FALSE]
  ELSE IF p.threw THEN [msg |-> ErrorMsg("TypeError"), invoked |-> FALSE]
  ELSE IF p.numSegments = 0 THEN [msg |-> ResultMsg(<< >>), invoked |-> FALSE]
  ELSE [msg |-> ResultMsg(recognized), invoked |-> TRUE]

\* the worker answers the recognize request whose strokes were preprocessed
Respond(recognized) ==
  /\ pc = "preprocessed"
  /\ \E r \in {handleRecognize(worker.engine, pre, MAX_TOP_K, recognized)} :
       /\ toMain' = Append(toMain, r.msg)
       /\ call' = IF r.invoked
                    THEN [features |-> pre.features, T |-> pre.numSegments, topK |-> MAX_TOP_K]
                    ELSE call
  /\ pc' = "responded"
  /\ UNCHANGED << model, mem, tsOut, wasmOut, preVars, load, pad, worker, toWorker, now >>

NextPre ==
  \/ \E breaks \in [1..Len(strokeList) -> SUBSET (1..(MaxPts - 2))] : Preprocess(breaks)
  \/ \E recognized \in Recognized : Respond(recognized)

SpecPre == InitPre /\ [][NextPre]_vars

\* ---------------------------------------------------------- the pad
\* debounceMs (real default: 300) and the clock, in ticks
DebounceMs == 2
MaxTime == 5
\* strokes drawn on a pad, and requests or responses in flight
MaxDrawn == 3
MaxQueue == 2
\* recognize requests made on a pad
MaxRequests == 3

InitMsg == [type |-> "init", of |-> << >>, req |-> 0]
RecognizeMsg(strokes) == [type |-> "recognize", of |-> strokes, req |-> 0]

NoPost == [elapsed |-> DebounceMs, ends |-> 1, of |-> << >>, canvas |-> << >>]

\* the closure of create() and the canvas after createCanvas: strokes are
\* named by the order they were drawn in, currentStroke by its number of
\* points (0: null), timers are the armed timeouts. drawn .. posted record
\* what happened: strokes drawn, the time of the last stroke end and the
\* stroke ends since the last automatic request, the last automatic
\* request, the strokes drawn before the last clear(), and the strokes the
\* last onRecognize call had its results from. lens is the number of points
\* (2: two or more) of each stroke of the canvas, strokeEnds the onStrokeEnd
\* calls made, calls the onRecognize calls made, settled the last promise a
\* worker message settled (id) and the request that message answers (by),
\* atDestroy what destroy() found: the value of recognizeId, the number of
\* promises pending and whether the debounce timer was armed
NewPad ==
  [created |-> "pending", strokes |-> << >>, currentStroke |-> 0,
   debounceTimer |-> 0, timers |-> {}, destroyed |-> FALSE,
   recognizeId |-> 0, pendingResolvers |-> << >>,
   drawn |-> 0, lastStrokeEnd |-> 0, ends |-> 0, posted |-> NoPost,
   cleared |-> 0, recognized |-> << >>,
   lens |-> << >>, strokeEnds |-> 0, calls |-> 0,
   settled |-> [id |-> 0, by |-> 0],
   atDestroy |-> [id |-> 0, pending |-> 0, armed |-> FALSE]]

IdleWorker == [engine |-> FALSE, init |-> "idle"]

\* mutant: the armed timer is not cancelled
onStrokeEndNoClear(p) ==
  IF p.destroyed THEN [p EXCEPT !.strokeEnds = p.strokeEnds + 1]
  ELSE [p EXCEPT !.strokeEnds = p.strokeEnds + 1,
                 !.debounceTimer = p.debounceTimer + 1,
                 !.timers = p.timers \cup {[id |-> p.debounceTimer + 1,
                                            due |-> now + DebounceMs]}]

\* onStrokeEnd: clearTimeout(debounceTimer), then setTimeout(..., debounceMs)
onStrokeEnd(p) ==
  IF p.destroyed THEN [p EXCEPT !.strokeEnds = p.strokeEnds + 1]
  ELSE [p EXCEPT !.strokeEnds = p.strokeEnds + 1,
                 !.debounceTimer = p.debounceTimer + 1,
                 !.timers = {t \in p.timers : t.id # p.debounceTimer}
                              \cup {[id |-> p.debounceTimer + 1,
                                     due |-> now + DebounceMs]}]

\* sendRecognize: id = ++recognizeId, push a resolver (auto: its then() calls
\* onRecognize)
sendRecognize(p, auto) ==
  [p EXCEPT !.recognizeId = p.recognizeId + 1,
            !.pendingResolvers = Append(p.pendingResolvers,
                                        [auto |-> auto, id |-> p.recognizeId + 1])]

InitPad ==
  /\ pad = NewPad
  /\ worker = IdleWorker
  /\ toWorker = << InitMsg >>
  /\ toMain = << >>
  /\ now = 0
  /\ pc = "pad"
  /\ load = NoLoad
  /\ model = 0
  /\ mem = << >>
  /\ call = NoCall
  /\ tsOut = NoResult
  /\ wasmOut = NoResult
  /\ strokeList = << >>
  /\ fit = << >>
  /\ pre = NoFeatures

onPointerDown ==
  /\ ~pad.destroyed
  /\ pad.drawn < MaxDrawn
  /\ pad' = [pad EXCEPT !.currentStroke = 1]
  /\ UNCHANGED << inferVars, pc, preVars, load, worker, toWorker, toMain, now >>

\* if (!currentStroke) return; currentStroke.push(...)
onPointerMove ==
  /\ ~pad.destroyed
  /\ pad' = IF pad.currentStroke = 0 THEN pad ELSE [pad EXCEPT !.currentStroke = 2]
  /\ UNCHANGED << inferVars, pc, preVars, load, worker, toWorker, toMain, now >>

\* mutant: a stroke of a single point is kept
StrokeKeptAny(currentStroke) == currentStroke > 0

\* currentStroke && currentStroke.length > 1
StrokeKept(currentStroke) == currentStroke > 1

\* pointerup / pointercancel
onPointerEnd ==
  /\ ~pad.destroyed
  /\ pad' = IF StrokeKept(pad.currentStroke)
              THEN onStrokeEnd([pad EXCEPT !.strokes = Append(pad.strokes, pad.drawn + 1),
                                           !.lens = Append(pad.lens, pad.currentStroke),
                                           !.currentStroke = 0,
                                           !.drawn = pad.drawn + 1,
                                           !.lastStrokeEnd = now,
                                           !.ends = IF pad.ends < MaxDrawn THEN pad.ends + 1
                                                    ELSE pad.ends])
              ELSE [pad EXCEPT !.currentStroke = 0]
  /\ UNCHANGED << inferVars, pc, preVars, load, worker, toWorker, toMain, now >>

Tick ==
  /\ now < MaxTime
  /\ now' = now + 1
  /\ UNCHANGED << inferVars, pc, preVars, load, pad, worker, toWorker, toMain >>

\* the debounce timeout's callback
TimerFire(t) ==
  /\ t \in pad.timers
  /\ now >= t.due
  /\ Len(toWorker) < MaxQueue
  /\ pad.recognizeId < MaxRequests
  /\ IF pad.destroyed \/ pad.strokes = << >>
       THEN /\ pad' = [pad EXCEPT !.timers = pad.timers \ {t}]
            /\ UNCHANGED toWorker
       ELSE /\ pad' = [sendRecognize(pad, TRUE) EXCEPT
                         !.timers = pad.timers \ {t},
                         !.ends = 0,
                         !.posted = [elapsed |-> now - pad.lastStrokeEnd, ends |-> pad.ends,
                                     of |-> pad.strokes, canvas |-> pad.strokes]]
            /\ toWorker' = Append(toWorker, [RecognizeMsg(pad.strokes)
                                               EXCEPT !.req = pad.recognizeId + 1])
  /\ UNCHANGED << inferVars, pc, preVars, load, worker, toMain, now >>

\* worker onmessage, 'init': handleInit starts and awaits the fetch
WorkerInit ==
  /\ ~pad.destroyed
  /\ toWorker # << >>
  /\ Head(toWorker).type = "init"
  /\ toWorker' = Tail(toWorker)
  /\ worker' = [worker EXCEPT !.init = "fetching"]
  /\ UNCHANGED << inferVars, pc, preVars, load, pad, toMain, now >>

\* handleInit completes (engine set, 'ready') or throws ('error')
WorkerInitDone(ok) ==
  /\ ~pad.destroyed
  /\ worker.init = "fetching"
  /\ Len(toMain) < MaxQueue
  /\ worker' = IF ok THEN [engine |-> TRUE, init |-> "ready"]
               ELSE [worker EXCEPT !.init = "failed"]
  /\ toMain' = Append(toMain, IF ok THEN ReadyMsg ELSE ErrorMsg("Failed to fetch model"))
  /\ UNCHANGED << inferVars, pc, preVars, load, pad, toWorker, now >>

\* worker onmessage, 'recognize' (every stroke of the canvas has at least 2
\* points, so preprocessStrokes returns at least one segment per stroke)
WorkerRecognize(recognized) ==
  /\ ~pad.destroyed
  /\ toWorker # << >>
  /\ Head(toWorker).type = "recognize"
  /\ Len(toMain) < MaxQueue
  /\ toWorker' = Tail(toWorker)
  /\ toMain' = Append(toMain,
       [handleRecognize(worker.engine,
                        [threw |-> FALSE, numSegments |-> Len(Head(toWorker).of)],
                        MAX_TOP_K, recognized).msg
          EXCEPT !.of = Head(toWorker).of, !.req = Head(toWorker).req])
  /\ UNCHANGED << inferVars, pc, preVars, load, pad, worker, now >>

\* a worker message on the main thread: worker.onmessage, then initHandler
\* while it is installed
MainReceive ==
  /\ ~pad.destroyed
  /\ toMain # << >>
  /\ toMain' = Tail(toMain)
  /\ pad' = [pad EXCEPT
       !.pendingResolvers =
          IF Head(toMain).type \in {"result", "error"} /\ pad.pendingResolvers # << >>
            THEN Tail(pad.pendingResolvers) ELSE pad.pendingResolvers,
       !.recognized =
          IF Head(toMain).type = "result" /\ pad.pendingResolvers # << >>
             /\ Head(pad.pendingResolvers).auto /\ ~pad.destroyed
            THEN Head(toMain).of ELSE pad.recognized,
       !.calls =
          IF Head(toMain).type = "result" /\ pad.pendingResolvers # << >>
             /\ Head(pad.pendingResolvers).auto /\ ~pad.destroyed
            THEN pad.calls + 1 ELSE pad.calls,
       !.settled =
          IF Head(toMain).type \in {"result", "error"} /\ pad.pendingResolvers # << >>
            THEN [id |-> Head(pad.pendingResolvers).id, by |-> Head(toMain).req]
            ELSE pad.settled,
       !.created =
          IF pad.created # "pending" THEN pad.created
          ELSE IF Head(toMain).type = "ready" THEN "resolved"
          ELSE IF Head(toMain).type = "error" THEN "rejected"
          ELSE pad.created]
  /\ UNCHANGED << inferVars, pc, preVars, load, worker, toWorker, now >>

\* instance.clear()
clear ==
  /\ pad.created = "resolved"
  /\ ~pad.destroyed
  /\ pad' = [pad EXCEPT !.strokes = << >>,
                        !.lens = << >>,
                        !.currentStroke = 0,
                        !.timers = {t \in pad.timers : t.id # pad.debounceTimer},
                        !.ends = 0,
                        !.cleared = pad.drawn,
                        !.recognized = << >>]
  /\ UNCHANGED << inferVars, pc, preVars, load, worker, toWorker, toMain, now >>

\* mutant: the pending promises are left as they are
RejectAllKeep(pendingResolvers) == pendingResolvers

\* pendingResolvers.forEach(r => r.reject(...)); pendingResolvers = []
RejectAll(pendingResolvers) == << >>

\* instance.destroy(); worker.terminate() discards the messages in flight
destroy ==
  /\ pad.created = "resolved"
  /\ ~pad.destroyed
  /\ pad' = [pad EXCEPT !.destroyed = TRUE,
                        !.timers = {t \in pad.timers : t.id # pad.debounceTimer},
                        !.currentStroke = 0,
                        !.atDestroy = [id |-> pad.recognizeId,
                                       pending |-> Len(pad.pendingResolvers),
                                       armed |-> \E t \in pad.timers :
                                                   t.id = pad.debounceTimer],
                        !.pendingResolvers = RejectAll(pad.pendingResolvers)]
  /\ toWorker' = << >>
  /\ toMain' = << >>
  /\ UNCHANGED << inferVars, pc, preVars, load, worker, now >>

\* instance.recognize(); it can be called after destroy() as well, and
\* postMessage to a terminated worker delivers nothing
recognize ==
  /\ pad.created = "resolved"
  /\ pad.strokes # << >>
  /\ Len(toWorker) < MaxQueue
  /\ pad.recognizeId < MaxRequests
  /\ pad' = sendRecognize(pad, FALSE)
  /\ toWorker' = IF pad.destroyed THEN toWorker
                 ELSE Append(toWorker, [RecognizeMsg(pad.strokes)
                                          EXCEPT !.req = pad.recognizeId + 1])
  /\ UNCHANGED << inferVars, pc, preVars, load, worker, toMain, now >>

NextPad ==
  \/ onPointerDown
  \/ onPointerMove
  \/ onPointerEnd
  \/ Tick
  \/ \E t \in pad.timers : TimerFire(t)
  \/ WorkerInit
  \/ \E ok \in BOOLEAN : WorkerInitDone(ok)
  \/ \E recognized \in Recognized : WorkerRecognize(recognized)
  \/ MainReceive
  \/ clear
  \/ destroy
  \/ recognize

SpecPad == InitPad /\ [][NextPad]_vars

\* the pad with a worker that handles every message it receives and a main
\* thread that handles every message of the worker
SpecPadFair ==
  /\ SpecPad
  /\ WF_vars(WorkerInit)
  /\ WF_vars(\E ok \in BOOLEAN : WorkerInitDone(ok))
  /\ WF_vars(\E recognized \in Recognized : WorkerRecognize(recognized))
  /\ WF_vars(MainReceive)

\* ----------------------------------------------- properties: preprocessing
IsZero(v) == v.d > 0 /\ v.n = 0
IsOneThird(v) == v.d > 0 /\ v.s = 1 /\ 9 * v.n = v.d

Preprocessed == pc = "preprocessed"

\* indices of the strokes with at least 2 points, in order
LongStrokes == SelectSeq(Arr([i \in 1..Len(strokeList) |-> i]),
                         LAMBDA i : Len(strokeList[i]) >= 2)

\* the moves (f1, f2) of the pen-up bridges when short strokes are skipped:
\* from the last point of each stroke of at least 2 points to the first point
\* of the next such stroke
ExpectedBridges ==
  LET normalized == normalizeStrokes(strokeList, DEFAULT_SCALE)
      from(k) == normalized.strokes[LongStrokes[k]]
      to(k) == normalized.strokes[LongStrokes[k + 1]]
  IN Arr([k \in 1..(Len(LongStrokes) - 1) |->
       << Rational(to(k)[1][1] - from(k)[Len(from(k))][1], normalized.D * DEFAULT_SCALE),
          Rational(to(k)[1][2] - from(k)[Len(from(k))][2], normalized.D * DEFAULT_SCALE) >>])

PenUps == SelectSeq(pre.features, LAMBDA f : f.f0 = 0)

\* C6: strokes with fewer than 2 points are skipped entirely: no error is
\* raised, and the pen-up bridges are exactly those between consecutive
\* strokes of at least 2 points (none before the first such stroke)
ShortStrokesSkipped ==
  Preprocessed =>
    /\ ~pre.threw
    /\ Arr([k \in 1..Len(PenUps) |-> << PenUps[k].f1, PenUps[k].f2 >>]) = ExpectedBridges

\* the number of curves fitted to stroke i under the recorded fit outcome
FittedCount(i) ==
  Len(fitCurve(Arr([j \in 1..Len(strokeList[i]) |->
                      << strokeList[i][j][1], strokeList[i][j][2] >>]), fit[i]))

RECURSIVE ExpectedFlags(_)
\* f0 of the expected layout of strokes 1..i: the segments of stroke 1, then
\* per later stroke one pen-up and that stroke's segments
ExpectedFlags(i) ==
  IF i = 0 THEN << >>
  ELSE ExpectedFlags(i - 1) \o (IF i > 1 THEN << 0 >> ELSE << >>)
       \o Arr([k \in 1..FittedCount(i) |-> 1])

\* C7: when every stroke has at least 2 points the output is the segments of
\* stroke 1 (f0 = 1), then for each later stroke one pen-up (f0 = 0) followed
\* by its fitted segments (f0 = 1); numSegments is the number of fitted
\* segments plus the number of strokes minus 1 (3 segments 1, 0, 1 for two
\* 2-point strokes)
SegmentLayout ==
  (Preprocessed /\ \A i \in 1..Len(strokeList) : Len(strokeList[i]) >= 2) =>
    /\ ~pre.threw
    /\ Arr([k \in 1..Len(pre.features) |-> pre.features[k].f0])
         = ExpectedFlags(Len(strokeList))
    /\ pre.numSegments = Len(ExpectedFlags(Len(strokeList)))
    /\ Len(strokeList) >= 1
         => pre.numSegments = SumTo([i \in 1..Len(strokeList) |-> FittedCount(i)],
                                    Len(strokeList)) + (Len(strokeList) - 1)
    /\ (Len(strokeList) = 2 /\ Len(strokeList[1]) = 2 /\ Len(strokeList[2]) = 2)
         => (pre.numSegments = 3 /\ pre.features[1].f0 = 1
             /\ pre.features[2].f0 = 0 /\ pre.features[3].f0 = 1)

\* C7 witness: three strokes of at least 2 points, two of them split by the
\* fit into two curves each
SegmentLayoutWitness ==
  /\ Preprocessed
  /\ Len(strokeList) = 3
  /\ \A i \in 1..3 : Len(strokeList[i]) >= 2
  /\ FittedCount(1) = 2
  /\ FittedCount(2) = 1
  /\ FittedCount(3) = 2
  /\ pre.numSegments = 7

\* C8: whenever preprocessStrokes returns numSegments > 0 the first feature
\* vector is a pen-down segment (f0 = 1)
FirstSegmentPenDown ==
  (Preprocessed /\ ~pre.threw /\ pre.numSegments > 0) => pre.features[1].f0 = 1

\* C9 as stated: for every stroke list whose strokes all have at least 2
\* points, every pen-up segment has f4 = f6 = 1/3
PenUpRatiosOneThird ==
  (Preprocessed /\ \A i \in 1..Len(strokeList) : Len(strokeList[i]) >= 2) =>
    \A k \in 1..Len(PenUps) : IsOneThird(PenUps[k].f4) /\ IsOneThird(PenUps[k].f6)

\* C9 amended: every pen-up segment whose end points differ has
\* f4 = f6 = 1/3, and every pen-up segment that starts where the previous
\* stroke ended (chord length 0) has f4 = f6 = 0
PenUpRatios ==
  Preprocessed =>
    \A k \in 1..Len(PenUps) :
      IF IsZero(PenUps[k].f1) /\ IsZero(PenUps[k].f2)
        THEN IsZero(PenUps[k].f4) /\ IsZero(PenUps[k].f6)
        ELSE IsOneThird(PenUps[k].f4) /\ IsOneThird(PenUps[k].f6)

\* C9 witness: one output holds a pen-up of chord length 0 and a pen-up
\* between two different points
PenUpRatiosWitness ==
  /\ Preprocessed
  /\ \E k \in 1..Len(PenUps) : IsZero(PenUps[k].f1) /\ IsZero(PenUps[k].f2)
  /\ \E k \in 1..Len(PenUps) : ~IsZero(PenUps[k].f2) /\ IsOneThird(PenUps[k].f4)

\* C10: when every timestamp of every stroke is 0, every feature vector has
\* f7 = f8 = f9 = 0
NoTimingZeroTimeFeatures ==
  (Preprocessed
     /\ \A i \in 1..Len(strokeList) :
          \A j \in 1..Len(strokeList[i]) : strokeList[i][j][3] = 0) =>
    \A k \in 1..Len(pre.features) :
      /\ IsZero(pre.features[k].f7)
      /\ IsZero(pre.features[k].f8)
      /\ IsZero(pre.features[k].f9)

ShortBufferRejected ==
  (pc = "loading" /\ load.len < LayoutLength(load.header))
    => /\ load.ts # "loaded"
       /\ load.wasm # "loaded"
       /\ load.tsRan = << >>
       /\ load.wasmRan = << >>

\* the kernels, scales and biases of a parsed direction are those serialized
SameDirection(parsed, given) ==
  /\ parsed.inputKernels = given.inputKernels
  /\ parsed.inputScales = given.inputScales
  /\ parsed.recKernels = given.recKernels
  /\ parsed.recScales = given.recScales
  /\ parsed.biases = given.biases

\* C13: parsing the sequential layout of a set of weights returns numLayers
\* layers whose kernels, scales and biases are the ones serialized (and the
\* same for the FC layer) and consumes exactly the computed total of bytes.
ParseRoundTrip ==
  (pc = "loading" /\ load.ts # "none" /\ load.len = LayoutLength(load.header))
    => /\ load.ts = "loaded"
       /\ Len(load.weights.layers) = load.header.numLayers
       /\ \A l \in 1..load.header.numLayers :
            /\ SameDirection(load.weights.layers[l].forward,
                             SampleWeights(load.header, load.seed).layers[l].forward)
            /\ SameDirection(load.weights.layers[l].backward,
                             SampleWeights(load.header, load.seed).layers[l].backward)
            /\ load.weights.layers[l].inputSize =
                 IF l = 1 THEN load.header.numFeatures ELSE load.header.hiddenSize * 2
       /\ load.weights.fc.weights = SampleWeights(load.header, load.seed).fc.weights
       /\ load.weights.fc.scale = SampleWeights(load.header, load.seed).fc.scale
       /\ load.weights.fc.biases = SampleWeights(load.header, load.seed).fc.biases
       /\ load.weights.consumed = LayoutLength(load.header)
       /\ load.weights.consumed = Len(Serialize(SampleWeights(load.header, load.seed)))

\* a complete file of 4 layers with negative scales and biases was parsed
ParseRoundTripWitness ==
  /\ pc = "loading"
  /\ load.ts = "loaded"
  /\ load.len = LayoutLength(load.header)
  /\ load.header = Header(NUM_LAYERS, MaxHidden, MaxClasses, MaxInFeatures)
  /\ \E g \in 1..NUM_GATES : load.weights.layers[2].backward.recScales[g] < 0
  /\ \E i \in 1..MaxClasses : load.weights.fc.biases[i] < 0

\* C19: for every header passed to init, the addresses the WASM engine
\* derives from its offset table for each layer/direction/gate item, each
\* layer's input size and the FC base equal (relative to the weights base)
\* the offsets at which parseWeights reads the same items.
OffsetTableMatchesLayout ==
  (pc = "loading" /\ load.ts = "loaded" /\ load.wasm = "loaded")
    => /\ \A l \in 1..load.header.numLayers :
            /\ load.engine.table[9 + (l - 1)] = load.weights.layers[l].inputSize
            /\ WasmDirOffsets(load.engine, l - 1, 0).inputOffs
                 = load.weights.layers[l].forward.inputOffs
            /\ WasmDirOffsets(load.engine, l - 1, 0).recOffs
                 = load.weights.layers[l].forward.recOffs
            /\ WasmDirOffsets(load.engine, l - 1, 0).biasOffs
                 = load.weights.layers[l].forward.biasOffs
            /\ WasmDirOffsets(load.engine, l - 1, 1).inputOffs
                 = load.weights.layers[l].backward.inputOffs
            /\ WasmDirOffsets(load.engine, l - 1, 1).recOffs
                 = load.weights.layers[l].backward.recOffs
            /\ WasmDirOffsets(load.engine, l - 1, 1).biasOffs
                 = load.weights.layers[l].backward.biasOffs
       /\ load.engine.table[8] - load.engine.weightsOff = load.weights.fc.off

\* C20: both engines chain exactly 4 BiLSTM layers for every header they
\* accept: layer 0 consumes rows of numFeatures, each later layer rows of 2H.
FourLayersChained ==
  /\ (pc = "loading" /\ load.tsRan # << >>)
       => /\ Len(load.tsRan) = NUM_LAYERS
          /\ \A k \in 1..Len(load.tsRan) :
               load.tsRan[k].inputSize =
                 IF k = 1 THEN load.header.numFeatures ELSE load.header.hiddenSize * 2
  /\ (pc = "loading" /\ load.wasmRan # << >>)
       => /\ Len(load.wasmRan) = NUM_LAYERS
          /\ \A k \in 1..Len(load.wasmRan) :
               load.wasmRan[k].inputSize =
                 IF k = 1 THEN load.header.numFeatures ELSE load.header.hiddenSize * 2

\* the result of a WASM call, as compared between calls
WasmResult(features, T, topK) ==
  LET r == WasmRunInference(mem, ModelBytes[model], features, T, topK)
  IN [indices |-> r.indices, scores |-> r.scores]

\* C14: capacity overflow is clamped silently: a call with T > MAX_T
\* returns the result for the first MAX_T timesteps of the same features, a
\* call with topK > MAX_TOP_K the result for topK = MAX_TOP_K, and the
\* features written for the call stay inside the features region.
CapacityClamped ==
  pc = "done"
    => /\ call.T > MAX_T =>
            [indices |-> wasmOut.indices, scores |-> wasmOut.scores]
              = WasmResult(SubSeq(call.features, 1, MAX_T * NumFeatures), MAX_T, call.topK)
       /\ call.topK > MAX_TOP_K =>
            [indices |-> wasmOut.indices, scores |-> wasmOut.scores]
              = WasmResult(call.features, call.T, MAX_TOP_K)
       /\ Engine.featuresOff + 4 * Len(FeaturesWritten(call.features, call.T))
            <= Engine.outputAOff

\* the x, y points of stroke i as handed to fitCurve
FitInput(i) ==
  LET stroke == normalizeStrokes(strokeList, DEFAULT_SCALE).strokes[i]
  IN Arr([j \in 1..Len(stroke) |-> << stroke[j][1], stroke[j][2] >>])

\* C18: fitting a stroke of exactly 2 points yields exactly one segment whose
\* end control points are the two points and whose inner control points lie
\* on the chord at 1/3 and 2/3 of the way from the first to the second, for
\* every pair of points and every outcome of the error test.
TwoPointFit ==
  Preprocessed =>
    \A i \in 1..Len(strokeList) :
      Len(strokeList[i]) = 2 =>
        /\ Len(fitCurve(FitInput(i), fit[i])) = 1
        /\ fitCurve(FitInput(i), fit[i])[1].cp[1] = FitInput(i)[1]
        /\ fitCurve(FitInput(i), fit[i])[1].cp[4] = FitInput(i)[2]
        /\ fitCurve(FitInput(i), fit[i])[1].cp[2] # Fitted
        /\ fitCurve(FitInput(i), fit[i])[1].cp[3] # Fitted
        /\ \A c \in 1..2 :
             /\ 3 * (fitCurve(FitInput(i), fit[i])[1].cp[2][c] - FitInput(i)[1][c])
                  = FitInput(i)[2][c] - FitInput(i)[1][c]
             /\ 3 * (fitCurve(FitInput(i), fit[i])[1].cp[3][c] - FitInput(i)[1][c])
                  = 2 * (FitInput(i)[2][c] - FitInput(i)[1][c])

\* C18 witness: a stroke of 2 distinct points was fitted with the error
\* test failing wherever it is asked
TwoPointFitWitness ==
  /\ Preprocessed
  /\ \E i \in 1..Len(strokeList) :
       /\ Len(strokeList[i]) = 2
       /\ FitInput(i)[1] # FitInput(i)[2]
       /\ fit[i] = 1..(MaxPts - 2)
       /\ Len(fitCurve(FitInput(i), fit[i])) = 1

\* C15: create() rejects only when model initialisation itself failed; a
\* recognize request answered with 'Model not loaded' during loading does
\* not make it reject.
CreateRejectsOnlyOnInitFailure ==
  (pc = "pad" /\ pad.created = "rejected") => worker.init = "failed"

\* C16: automatic recognition is debounced: at most one timer is armed at
\* any time, and an automatic request is posted only when debounceMs has
\* elapsed since the most recent stroke end, at most once per burst of
\* stroke ends, carrying all strokes of the canvas.
Debounced ==
  pc = "pad" =>
    /\ Cardinality(pad.timers) <= 1
    /\ pad.posted.elapsed >= DebounceMs
    /\ pad.posted.ends >= 1
    /\ pad.posted.of = pad.posted.canvas

\* C16 witness: a burst of 3 stroke ends less than debounceMs apart was
\* followed by one automatic request carrying the 3 strokes
DebouncedWitness ==
  /\ pc = "pad"
  /\ pad.posted.ends = 3
  /\ pad.posted.of = << 1, 2, 3 >>
  /\ pad.lastStrokeEnd < DebounceMs
  /\ pad.timers = {}
  /\ Len(toWorker) = 1
  /\ Head(toWorker).type = "recognize"
  /\ Head(toWorker).of = << 1, 2, 3 >>

\* C17: after clear() no stroke drawn before it is left on the canvas, and
\* onRecognize is not invoked afterwards with results computed from strokes
\* drawn before the clear.
ClearDropsResults ==
  pc = "pad" =>
    /\ \A k \in 1..Len(pad.strokes) : pad.strokes[k] > pad.cleared
    /\ \A k \in 1..Len(pad.recognized) : pad.recognized[k] > pad.cleared

\* the layer records of the call of this state, run on the memory of this
\* state: before RunWasm the call about to run, after it the same call again
\* on what it left behind
LayerTrace ==
  WasmTrace([m |-> StoreSeq(mem, Engine.featuresOff,
                            FeaturesWritten(call.features, call.T)),
             layers |-> << >>],
            ModelBytes[model], 0, IF call.T > MAX_T THEN MAX_T ELSE call.T)

\* the T rows direction dir of a layer writes when it runs on a memory that
\* holds nothing but the input rows
DirectionAlone(layer, dir, input, T) ==
  LoadSeq(WasmRunLSTMDirection(
            StoreSeq(Arr([w \in 1..MemWords |-> 0]), WasmLayerBuffers(layer).input, input),
            ModelBytes[model], loadDirBase(layer, dir), WasmLayerBuffers(layer).input,
            T, loadLayerInputSize(layer), Engine.H,
            dir = 1, IF dir = 0 THEN Engine.tempFwOff ELSE Engine.tempBwOff),
          IF dir = 0 THEN Engine.tempFwOff ELSE Engine.tempBwOff,
          T * Engine.H)

RunsAlone(rec, dir) ==
  DirectionAlone(rec.layer, dir, rec.inputBefore, Len(rec.fw) \div Engine.H)

\* C21: at the first timestep of every LSTM direction run h and c are all
\* zero, in both engines, and what a direction of the WASM engine writes
\* does not depend on anything other directions, layers or calls left in
\* memory.
FreshStatePerDirection ==
  pc \in {"wasm", "done"} =>
    /\ \A T \in 0..MAX_T, i \in 1..HiddenSize :
         TsLstmStart(T, HiddenSize).h[i] = 0 /\ TsLstmStart(T, HiddenSize).c[i] = 0
    /\ \A tr \in {LayerTrace} :
         \A l \in 1..Len(tr) :
           /\ \A i \in 1..(2 * Engine.H) : tr[l].startFw[i] = 0 /\ tr[l].startBw[i] = 0
           /\ tr[l].fw = RunsAlone(tr[l], 0)
           /\ tr[l].bw = RunsAlone(tr[l], 1)

\* C21 witness: a call returned, and run again on the memory it left both
\* directions of the last layer are given nonzero h and c and write nonzero
\* rows
FreshStatePerDirectionWitness ==
  /\ pc = "done"
  /\ call.T = MAX_T
  /\ \E tr \in {LayerTrace} :
       /\ Len(tr) = NUM_LAYERS
       /\ tr[NUM_LAYERS].stale
       /\ \E k \in 1..Len(tr[NUM_LAYERS].bw) : tr[NUM_LAYERS].bw[k] # 0

\* row t of a buffer of rows of n values
Row(rows, t, n) == SubSeq(rows, t * n + 1, (t + 1) * n)

\* fw and bw are the rows of a forward and a backward run over T input rows:
\* the forward row t is what a run over the input rows 0..t writes last, the
\* backward row t what a run over the input rows t..T-1 writes last, so row t
\* is written by the step that consumes input row t and by no later step
RowsFollowInput(fw, bw, T, H, RunFw(_, _), RunBw(_, _), input, inputSize) ==
  \A t \in 0..(T - 1) :
    /\ Row(fw, t, H) = Row(RunFw(SubSeq(input, 1, (t + 1) * inputSize), t + 1), t, H)
    /\ Row(bw, t, H) = Row(RunBw(SubSeq(input, t * inputSize + 1, T * inputSize), T - t), 0, H)

\* out is fw and bw interleaved by timestep, forward first
Interleaved(out, fw, bw, T, H) ==
  /\ Len(out) = T * 2 * H
  /\ \A t \in 0..(T - 1) : Row(out, t, 2 * H) = Row(fw, t, H) \o Row(bw, t, H)

\* the TypeScript layer of record rec run on the record's input
TsLayerFollowsInput(rec, T) ==
  LET layer == ModelWeights[model].layers[rec.layer + 1]
      RunFw(input, n) ==
        TsRunLSTMDirection(layer.forward, input, n, layer.inputSize, HiddenSize, FALSE)
      RunBw(input, n) ==
        TsRunLSTMDirection(layer.backward, input, n, layer.inputSize, HiddenSize, TRUE)
  IN /\ RowsFollowInput(RunFw(rec.inputBefore, T), RunBw(rec.inputBefore, T), T, HiddenSize,
                        RunFw, RunBw, rec.inputBefore, layer.inputSize)
     /\ Interleaved(TsRunBiLSTMLayer(layer, rec.inputBefore, T, HiddenSize),
                    RunFw(rec.inputBefore, T), RunBw(rec.inputBefore, T), T, HiddenSize)

WasmLayerFollowsInput(rec, T) ==
  LET RunFw(input, n) == DirectionAlone(rec.layer, 0, input, n)
      RunBw(input, n) == DirectionAlone(rec.layer, 1, input, n)
  IN /\ Len(rec.fw) = T * Engine.H
     /\ Len(rec.bw) = T * Engine.H
     /\ RowsFollowInput(rec.fw, rec.bw, T, Engine.H, RunFw, RunBw, rec.inputBefore,
                        loadLayerInputSize(rec.layer))
     /\ Interleaved(rec.output, rec.fw, rec.bw, T, Engine.H)
     /\ rec.inputAfter = rec.inputBefore

\* C22: in each BiLSTM layer the forward direction visits the timesteps
\* 0..T-1 and the backward direction T-1..0, T steps each; output row t is
\* written by the step that consumes input row t; the layer's output row t is
\* the forward row t followed by the backward row t; the layer's input rows
\* are unchanged by the layer.
TimestepOrder ==
  pc \in {"wasm", "done"} =>
    /\ \A T \in 0..MAX_T : \A step \in 0..(T - 1) :
         /\ TimestepOf(T, FALSE, step) = step
         /\ TimestepOf(T, TRUE, step) = T - 1 - step
    /\ \A tr \in {LayerTrace} :
         /\ Len(tr) = NUM_LAYERS
         /\ \A l \in 1..Len(tr) :
              /\ WasmLayerFollowsInput(tr[l], IF call.T > MAX_T THEN MAX_T ELSE call.T)
              /\ TsLayerFollowsInput(tr[l], IF call.T > MAX_T THEN MAX_T ELSE call.T)

\* C22 witness: a call over MAX_T timesteps whose last layer gets different
\* input rows and writes different rows at different timesteps, in both
\* directions
TimestepOrderWitness ==
  /\ pc = "done"
  /\ call.T = MAX_T
  /\ \E tr \in {LayerTrace} :
       /\ Len(tr) = NUM_LAYERS
       /\ Row(tr[NUM_LAYERS].inputBefore, 0, 2 * Engine.H)
            # Row(tr[NUM_LAYERS].inputBefore, MAX_T - 1, 2 * Engine.H)
       /\ Row(tr[NUM_LAYERS].fw, 0, Engine.H) # Row(tr[NUM_LAYERS].fw, MAX_T - 1, Engine.H)
       /\ Row(tr[NUM_LAYERS].bw, 0, Engine.H) # Row(tr[NUM_LAYERS].bw, MAX_T - 1, Engine.H)
       /\ Row(tr[NUM_LAYERS].fw, 0, Engine.H) # Row(tr[NUM_LAYERS].bw, 0, Engine.H)

\* the largest value of a nonempty sequence
Maximum(logits) ==
  CHOOSE v \in {logits[i] : i \in 1..Len(logits)} : \A i \in 1..Len(logits) : logits[i] <= v

\* subtracting sub from the logits is the stable softmax: sub is their
\* maximum, so the largest exponent is 0 and the sum of the exponentials is
\* at least 1
StableShift(logits, sub) ==
  /\ sub = Maximum(logits)
  /\ \A i \in 1..Len(logits) : logits[i] - sub <= 0
  /\ SumTo(Arr([i \in 1..Len(logits) |-> Exp(logits[i] - sub)]), Len(logits)) >= Unit

\* the logit vectors of the timesteps of the call of this state, in the
\* TypeScript and in the WASM engine
TsCallLogits ==
  LET T == call.T
      current == TsRunLayers(ModelWeights[model].layers, call.features, T, HiddenSize)
  IN Arr([t \in 1..T |->
        TsLogits(ModelWeights[model].fc, current, HiddenSize * 2, NumClasses, t - 1)])

WasmCallLogits ==
  LET T == IF call.T > MAX_T THEN MAX_T ELSE call.T
      m == WasmRunLayers(StoreSeq(mem, Engine.featuresOff,
                                  FeaturesWritten(call.features, call.T)),
                         ModelBytes[model], 0, T)
  IN Arr([t \in 1..T |->
        LoadSeq(WasmFcLogits(m, ModelBytes[model], Engine.outputBOff, Engine.H * 2,
                             Engine.numClasses, t - 1),
                Engine.logitsOff, Engine.numClasses)])

\* C23: at every timestep, in both engines, the value the decoder's softmax
\* subtracts from the logits is the maximum of that timestep's logits, so
\* the largest exponent is 0 and the normalizing sum is at least 1.
SoftmaxSubtractsMax ==
  pc = "wasm" =>
    /\ \A ls \in {TsCallLogits} :
         \A t \in 1..Len(ls) : StableShift(ls[t], TsMaxLogit(ls[t], 1, NegInfinity))
    /\ \A ls \in {WasmCallLogits} :
         \A t \in 1..Len(ls) : StableShift(ls[t], WasmMaxLogit(ls[t], 1, F32_MIN_VALUE))

\* the half of C23 that holds: the TypeScript engine subtracts the maximum
TsSoftmaxSubtractsMax ==
  pc = "wasm" =>
    \A ls \in {TsCallLogits} :
      \A t \in 1..Len(ls) : StableShift(ls[t], TsMaxLogit(ls[t], 1, NegInfinity))

\* the WASM engine subtracts the maximum whenever some logit is positive
WasmSubtractsPositiveMax ==
  pc = "wasm" =>
    \A ls \in {WasmCallLogits} :
      \A t \in 1..Len(ls) :
        Maximum(ls[t]) > 0 => StableShift(ls[t], WasmMaxLogit(ls[t], 1, F32_MIN_VALUE))

\* ------------------------------------------- fitCurve: the split selection
\* FIT_ERROR = 0.04, the tolerance preprocessStrokes passes to fitCurve
FIT_ERROR == 40
\* points of the stroke fitted; tolerances tried (0, the default, one above 1)
MaxFitPts == 5
Tolerances == {0, FIT_ERROR, 2 * Unit}
\* squared distances of an input point from a fitted curve
DistLevels == {0, FIT_ERROR \div 2, FIT_ERROR, 3 * Unit, 5 * Unit}
\* where the least-squares fit puts the inner control points, relative to
\* the end points
InnerOffsets == {<< 0, 0 >>, << 7, -4 >>}
\* rounds of the re-parameterization loop
MaxRounds == 20

\* what the numeric part of a fitCurve call comes to: dist is the squared
\* distance of each interior input point from the first fit of a run that
\* holds it, mirrored after slow rounds of re-parameterization if the
\* rounds do not converge and zero if they do; finite is FALSE when the
\* control points are NaN or infinite
FitOracles(n) ==
  [dist : [1..(n - 2) -> DistLevels], slow : {0, MaxRounds - 1, MaxRounds},
   converges : BOOLEAN, finite : BOOLEAN, inner : InnerOffsets]

\* q(cp, t) for the integer parameters t = 0 and t = 1
Q(cp, t) ==
  << (1 - t) * (1 - t) * (1 - t) * cp[1][1] + 3 * (1 - t) * (1 - t) * t * cp[2][1]
       + 3 * (1 - t) * t * t * cp[3][1] + t * t * t * cp[4][1],
     (1 - t) * (1 - t) * (1 - t) * cp[1][2] + 3 * (1 - t) * (1 - t) * t * cp[2][2]
       + 3 * (1 - t) * t * t * cp[3][2] + t * t * t * cp[4][2] >>

\* chordLengthParameterize at the first and at the last point: 0 and
\* total / total, or 0 and 0 when the chord lengths add up to 0
EndParameters(points) ==
  << 0, IF \E i \in 1..(Len(points) - 1) : points[i] # points[i + 1] THEN 1 ELSE 0 >>

\* the squared distances computeMaxError sees on the run points[lo..hi] in
\* re-parameterization round r (0: the first fit). newtonRaphsonRootFind
\* leaves a parameter where it is when the curve passes through the point
\* there, so the end parameters stay
RunDist(points, lo, hi, O, r) ==
  LET run == SubSeq(points, lo + 1, hi + 1)
      bez == << run[1], Add(run[1], O.inner), Sub(run[Len(run)], O.inner), run[Len(run)] >>
      ends == EndParameters(run)
      interior(i) == IF r <= O.slow THEN O.dist[i]
                     ELSE IF O.converges THEN 0
                     ELSE O.dist[lo + hi - i]
  IN Arr([k \in 1..Len(run) |->
       IF k = 1 THEN Dot(Sub(Q(bez, ends[1]), run[1]), Sub(Q(bez, ends[1]), run[1]))
       ELSE IF k = Len(run)
         THEN Dot(Sub(Q(bez, ends[2]), run[k]), Sub(Q(bez, ends[2]), run[k]))
       ELSE interior(lo + k - 1)])

RECURSIVE computeMaxErrorLoop(_, _, _)
\* for (i = 0; i < points.length; i++) if (dist > maxDist) { maxDist = dist; splitPoint = i }
computeMaxErrorLoop(dist, i, st) ==
  IF i >= Len(dist) THEN st
  ELSE computeMaxErrorLoop(dist, i + 1,
         IF dist[i + 1] > st.maxDist THEN [maxDist |-> dist[i + 1], splitPoint |-> i] ELSE st)

RECURSIVE computeMaxErrorLoopNotStrict(_, _, _)
computeMaxErrorLoopNotStrict(dist, i, st) ==
  IF i >= Len(dist) THEN st
  ELSE computeMaxErrorLoopNotStrict(dist, i + 1,
         IF dist[i + 1] >= st.maxDist THEN [maxDist |-> dist[i + 1], splitPoint |-> i] ELSE st)

\* mutant: the search for the split point starts at the first point
computeMaxErrorFromFirst(dist, finite) ==
  IF finite THEN computeMaxErrorLoop(dist, 0, [maxDist |-> 0, splitPoint |-> 0])
  ELSE [maxDist |-> 0, splitPoint |-> 0]

\* mutant: a point as far as the farthest so far becomes the split point
computeMaxErrorNotStrict(dist, finite) ==
  IF finite
    THEN computeMaxErrorLoopNotStrict(dist, 0, [maxDist |-> 0, splitPoint |-> Len(dist) \div 2])
    ELSE [maxDist |-> 0, splitPoint |-> Len(dist) \div 2]

\* computeMaxError: [maxDist, splitPoint]; every dist of a curve that is not
\* finite is NaN, and NaN > maxDist is false
computeMaxError(dist, finite) ==
  IF finite
    THEN computeMaxErrorLoop(dist, 0, [maxDist |-> 0, splitPoint |-> Len(dist) \div 2])
    ELSE [maxDist |-> 0, splitPoint |-> Len(dist) \div 2]

RECURSIVE ReparameterizeLoop(_, _, _, _, _, _, _)
\* if (maxError < error * error) for (i = 0; i < 20; i++) { ... }: the last
\* [maxError, splitPoint], whether a round accepted, and the rounds run
ReparameterizeLoop(points, lo, hi, error, O, i, last) ==
  IF i >= MaxRounds THEN [accepted |-> FALSE, rounds |-> i, last |-> last]
  ELSE LET e == computeMaxError(RunDist(points, lo, hi, O, i + 1), O.finite)
       IN IF e.maxDist < error THEN [accepted |-> TRUE, rounds |-> i + 1, last |-> e]
          ELSE ReparameterizeLoop(points, lo, hi, error, O, i + 1, e)

\* fitCubic up to the decision to split: whether a curve is returned, the
\* split point otherwise, the maxError of the first fit, the rounds run
FitDecision(points, lo, hi, error, O) ==
  LET first == computeMaxError(RunDist(points, lo, hi, O, 0), O.finite)
      loop == ReparameterizeLoop(points, lo, hi, error, O, 0, first)
  IN IF first.maxDist < error
       THEN [accepted |-> TRUE, splitPoint |-> first.splitPoint, first |-> first.maxDist,
             rounds |-> 0]
     ELSE IF first.maxDist < Mul(error, error)
       THEN [accepted |-> loop.accepted, splitPoint |-> loop.last.splitPoint,
             first |-> first.maxDist, rounds |-> loop.rounds]
     ELSE [accepted |-> FALSE, splitPoint |-> first.splitPoint, first |-> first.maxDist,
           rounds |-> 0]

\* the outcome of a fitCubic call that returns one curve over points[lo..hi]
OneCurve(lo, hi, depth, decisions) ==
  [threw |-> FALSE, segs |-> << [lo |-> lo, hi |-> hi] >>, depth |-> depth,
   decisions |-> decisions]

\* left and right joined: [...left, ...right]
Joined(left, right, decisions) ==
  [threw |-> left.threw \/ right.threw,
   segs |-> IF left.threw \/ right.threw THEN << >> ELSE left.segs \o right.segs,
   depth |-> IF left.depth > right.depth THEN left.depth ELSE right.depth,
   decisions |-> decisions \o left.decisions \o right.decisions]

RECURSIVE fitCubicRuns(_, _, _, _, _, _)
\* fitCubic on points.slice(lo, hi + 1) at recursion depth depth: the runs
\* of input points its curves cover, the deepest call, and the decision of
\* every call on 3 or more points. points[splitPoint - 1] or
\* points[splitPoint + 1] outside the run is undefined and sub() of it
\* throws a TypeError
fitCubicRuns(points, lo, hi, error, O, depth) ==
  IF hi - lo + 1 = 2 THEN OneCurve(lo, hi, depth, << >>)
  ELSE LET d == FitDecision(points, lo, hi, error, O)
           here == << [m |-> hi - lo + 1, accepted |-> d.accepted,
                       splitPoint |-> d.splitPoint, first |-> d.first,
                       rounds |-> d.rounds] >>
       IN IF d.accepted THEN OneCurve(lo, hi, depth, here)
          ELSE IF d.splitPoint - 1 < 0 \/ d.splitPoint + 1 > hi - lo
            THEN [threw |-> TRUE, segs |-> << >>, depth |-> depth, decisions |-> here]
          ELSE Joined(fitCubicRuns(points, lo, lo + d.splitPoint, error, O, depth + 1),
                      fitCubicRuns(points, lo + d.splitPoint, hi, error, O, depth + 1),
                      here)

\* fitCurve(points, maxError)
fitCurveRuns(points, error, O) ==
  IF Len(points) < 2
    THEN [threw |-> FALSE, segs |-> << >>, depth |-> 0, decisions |-> << >>]
    ELSE fitCubicRuns(points, 0, Len(points) - 1, error, O, 0)

\* one stroke of up to MaxFitPts points
InitFit ==
  /\ load = NoLoad
  /\ pad = NoPad
  /\ worker = LoadedWorker
  /\ toWorker = << >>
  /\ toMain = << >>
  /\ now = 0
  /\ \E n \in 0..MaxFitPts : \E f \in [1..n -> RawPoints] :
       strokeList = << Arr([j \in 1..n |-> << f[j][1], f[j][2], 0 >>]) >>
  /\ fit = << >>
  /\ pre = NoFeatures
  /\ pc = "stroke"
  /\ model = 0
  /\ mem = << >>
  /\ call = NoCall
  /\ tsOut = NoResult
  /\ wasmOut = NoResult

FitCurve(error, O) ==
  /\ pc = "stroke"
  /\ fit' = [error |-> error, n |-> Len(strokeList[1]),
             out |-> fitCurveRuns(FitInput(1), error, O)]
  /\ pc' = "fitted"
  /\ UNCHANGED << strokeList, pre, inferVars, load, padVars >>

NextFit ==
  \E error \in Tolerances, O \in FitOracles(Len(strokeList[1])) : FitCurve(error, O)

SpecFit == InitFit /\ [][NextFit]_vars

\* C24: fitCurve returns its segments in input order as one chain: the first
\* starts at the stroke's first point, the last ends at its last point, each
\* ends at the input point the next starts at, and the input indices of the
\* end points increase strictly, so that every segment covers a run of at
\* least 2 input points.
SegmentsChain ==
  (pc = "fitted" /\ fit.n >= 2) =>
    /\ ~fit.out.threw
    /\ Len(fit.out.segs) >= 1
    /\ fit.out.segs[1].lo = 0
    /\ fit.out.segs[Len(fit.out.segs)].hi = fit.n - 1
    /\ \A k \in 1..Len(fit.out.segs) :
         /\ fit.out.segs[k].lo >= 0
         /\ fit.out.segs[k].hi > fit.out.segs[k].lo
         /\ k < Len(fit.out.segs) => fit.out.segs[k].hi = fit.out.segs[k + 1].lo

\* C24 witness: a stroke of MaxFitPts points fitted by 3 curves, one of them
\* over 3 points
SegmentsChainWitness ==
  /\ pc = "fitted"
  /\ fit.n = MaxFitPts
  /\ Len(fit.out.segs) = 3
  /\ \E k \in 1..3 : fit.out.segs[k].hi - fit.out.segs[k].lo = 2

\* C25: at the default tolerance the re-parameterization threshold is looser
\* than the acceptance threshold: a first fit that is just not accepted
\* (maxError equal to the tolerance) enters the re-parameterization loop.
ReparameterizeBeforeSplit ==
  (pc = "fitted" /\ fit.error = FIT_ERROR) =>
    \A k \in 1..Len(fit.out.decisions) :
      fit.out.decisions[k].first = FIT_ERROR => fit.out.decisions[k].rounds >= 1

\* what holds instead: at a tolerance of at most 1 no call runs a round of
\* re-parameterization, whatever the error of its first fit
NoRoundsUpToOne ==
  (pc = "fitted" /\ fit.error <= Unit) =>
    \A k \in 1..Len(fit.out.decisions) : fit.out.decisions[k].rounds = 0

\* the loop is entered at a tolerance above 1: a first fit with an error
\* between the tolerance and its square runs all the rounds
RoundsAboveOne ==
  (pc = "fitted" /\ fit.error > Unit) =>
    \A k \in 1..Len(fit.out.decisions) :
      (~fit.out.decisions[k].accepted /\ fit.out.decisions[k].first < Mul(fit.error, fit.error))
        => fit.out.decisions[k].rounds = MaxRounds

\* C26: fitCurve terminates for every stroke of n >= 2 points and every
\* tolerance: a call that splits a run of m >= 3 points splits it at an index
\* in 1..m-2, so that both neighbours of the split point are in the run and
\* both halves have at least 2 and fewer than m points; no call is deeper
\* than n - 2, and between 1 and n - 1 curves are returned.
SplitsInside ==
  (pc = "fitted" /\ fit.n >= 2) =>
    /\ ~fit.out.threw
    /\ \A k \in 1..Len(fit.out.decisions) :
         /\ fit.out.decisions[k].m >= 3
         /\ ~fit.out.decisions[k].accepted =>
              /\ fit.out.decisions[k].splitPoint >= 1
              /\ fit.out.decisions[k].splitPoint <= fit.out.decisions[k].m - 2
              /\ fit.out.decisions[k].splitPoint + 1 >= 2
              /\ fit.out.decisions[k].splitPoint + 1 < fit.out.decisions[k].m
              /\ fit.out.decisions[k].m - fit.out.decisions[k].splitPoint >= 2
              /\ fit.out.decisions[k].m - fit.out.decisions[k].splitPoint
                   < fit.out.decisions[k].m
    /\ fit.out.depth <= fit.n - 2
    /\ Len(fit.out.decisions) <= 2 * fit.n - 3
    /\ Len(fit.out.segs) >= 1
    /\ Len(fit.out.segs) <= fit.n - 1

\* C26 witness: at tolerance 0 a stroke of MaxFitPts points is split down to
\* one curve per pair of neighbours, with a call at depth n - 2
SplitsInsideWitness ==
  /\ pc = "fitted"
  /\ fit.n = MaxFitPts
  /\ fit.error = 0
  /\ Len(fit.out.segs) = fit.n - 1
  /\ fit.out.depth = fit.n - 2

\* C27: responses are matched to requests in order: a promise made by
\* sendRecognize is settled by the worker's 'result' or 'error' response to
\* its own request, never by the response to another request or by the error
\* message of the init request.
RepliesMatchRequests ==
  pc = "pad" => pad.settled.id = pad.settled.by

\* what holds of C27: once create() has resolved, every promise a worker
\* message settles is settled by the response to its own request
RepliesMatchAfterReady ==
  [][(pc = "pad" /\ pad.created = "resolved" /\ pad'.settled # pad.settled)
       => pad'.settled.id = pad'.settled.by]_vars

\* the promise of recognize request id is pending
Pending(id) == \E k \in 1..Len(pad.pendingResolvers) : pad.pendingResolvers[k].id = id

\* C28: every promise returned by recognize() eventually settles, given that
\* the worker answers every request it receives, also when recognize() is
\* called after destroy().
PromisesSettle ==
  \A id \in 1..MaxRequests : (pc = "pad" /\ Pending(id)) ~> ~Pending(id)

\* what holds of C28: a promise is left pending only on a destroyed pad
PendingOnlyAfterDestroy ==
  \A id \in 1..MaxRequests :
    (pc = "pad" /\ Pending(id)) ~> (~Pending(id) \/ pad.destroyed)

\* C29: after destroy() onRecognize is not invoked again, whatever timers
\* were armed and whatever requests were in flight, and every promise that
\* was pending when destroy() was called has been rejected.
DestroyIsFinal ==
  /\ [](pc = "pad" /\ pad.destroyed =>
          \A k \in 1..Len(pad.pendingResolvers) :
            pad.pendingResolvers[k].id > pad.atDestroy.id)
  /\ [][(pc = "pad" /\ pad.destroyed) =>
          (pad'.calls = pad.calls /\ pad'.recognized = pad.recognized)]_vars

\* C29 witness: destroy() was called with a request in flight and the
\* debounce timer armed, after onRecognize had been invoked
DestroyIsFinalWitness ==
  /\ pc = "pad"
  /\ pad.destroyed
  /\ pad.atDestroy.pending >= 1
  /\ pad.atDestroy.armed
  /\ pad.calls >= 1

\* C30: every stroke of the canvas has at least 2 points: a stroke is stored
\* only by a pointer end that follows a pointer down and at least one move,
\* a move without a pointer down before it adds nothing, and onStrokeEnd is
\* called exactly once per stroke stored.
StoredStrokesHaveTwoPoints ==
  /\ [](pc = "pad" =>
          /\ Len(pad.lens) = Len(pad.strokes)
          /\ \A k \in 1..Len(pad.lens) : pad.lens[k] >= 2
          /\ pad.strokeEnds = pad.drawn)
  /\ [][pc = "pad" =>
          /\ Len(pad'.strokes) > Len(pad.strokes) =>
               /\ pad.currentStroke >= 2
               /\ Len(pad'.strokes) = Len(pad.strokes) + 1
               /\ pad'.strokeEnds = pad.strokeEnds + 1
          /\ pad'.strokeEnds # pad.strokeEnds =>
               /\ pad'.strokeEnds = pad.strokeEnds + 1
               /\ Len(pad'.strokes) = Len(pad.strokes) + 1
          /\ pad.currentStroke = 0 => pad'.currentStroke <= 1]_vars

\* C30 witness: strokes were stored before and after a clear()
StoredStrokesHaveTwoPointsWitness ==
  /\ pc = "pad"
  /\ pad.cleared >= 1
  /\ Len(pad.strokes) >= 1
  /\ pad.drawn = MaxDrawn
  /\ pad.strokeEnds = MaxDrawn

====
